---- MODULE Spec2Model ----
(***************************************************************************)
(* The dependency graph engine of PakSeek (src/backend/dependency_map.rs): *)
(* the DependencyMap store, its edge API, and the traversals built on it.  *)
(*                                                                         *)
(* The store is `dependencies: HashMap<String, Vec<String>>`: a function   *)
(* from the keys to sequences of asset names.  A call of a method is one   *)
(* action; the value it returns is held in `call` until the caller drops   *)
(* it.  The depth-first search of detect_circular_dependencies is given   *)
(* as a step function on its own state, run to completion by the method    *)
(* (Spec) and one step at a time in SpecDfs.                               *)
(***************************************************************************)
EXTENDS Integers, Sequences, FiniteSets, TLC

VARIABLES
    dependencies,   \* DependencyMap.dependencies
    call,           \* the call that has just returned: [op, its arguments, ret];
                    \* a call that changes the store also holds the store it
                    \* found (before), a call made on the heels of another the
                    \* call it followed (prev)
    pc,             \* "idle", or "dfs" while detect_circular_dependencies runs
    keys_left,      \* keys the `for asset in self.dependencies.keys()` loop has not yielded
    dfs,            \* the locals of detect_circular_dependencies and its recursion
    mutex,          \* the two Mutexes of AppState: the task that holds each, or NoOwner
    tasks           \* the HTTP handlers in flight: [kind, its parameter, pc, held, response]

vars == <<dependencies, call, pc, keys_left, dfs, mutex, tasks>>

(***************************************************************************)
(* Bounds of the model.                                                    *)
(***************************************************************************)
\* Asset identifiers; AssetOrder is the order of String's Ord on them.
AssetOrder == <<"A", "B", "C", "D">>
Assets == {AssetOrder[i] : i \in 1..Len(AssetOrder)}
\* The store holds at most MaxEdges list entries in total where the closure
\* or the tree is explored (SpecClosure, SpecTree), at most MaxDfsEdges where
\* the cycle search is explored step by step (SpecDfs), and at most
\* MaxApiEdges where the whole interface is (Spec).
MaxEdges == 4
MaxDfsEdges == 3
MaxApiEdges == 3
\* max_depth arguments of build_dependency_tree range over 0..MaxDepth.
MaxDepth == 2
\* Rosters (all_assets) have at most MaxRoster entries.
MaxRoster == 1
\* generate_statistics is called on stores of at most MaxStatEdges list entries.
MaxStatEdges == 2
\* Call frames a recursion is given before it counts as never returning.
StackBound == 6
\* A store written as a struct literal has lists of at most MaxLiteralLen
\* entries, over the keys and targets LiteralNames.
MaxLiteralLen == 2
LiteralNames == {"A", "B"}
\* Where the statistics are explored on their own (SpecReport), rosters have
\* at most MaxStatRoster entries, over LiteralNames.
MaxStatRoster == 2
\* limit arguments of get_most_referenced_assets range over 0..MaxLimit.
MaxLimit == 2
\* Rosters passed to find_orphaned_assets have at most MaxOrphanRoster
\* entries, over two identifiers of the store and one it never holds.
MaxOrphanRoster == 3
RosterNames == {"A", "B", "X"}
\* The API server runs at most MaxTasks handlers at a time.
MaxTasks == 3
\* Where the filter is explored (SpecFilter), the store holds the names of
\* FilterNames, and a caller passes at most MaxTypes substrings.
FilterNames == {"Mat", "xMAT", "Mesh"}
MaxTypes == 2

(***************************************************************************)
(* Vec and HashMap helpers.                                                *)
(***************************************************************************)
\* Vec::contains
Contains(s, x) == \E i \in 1..Len(s) : s[i] = x

\* the elements of a Vec
Elems(s) == {s[i] : i \in 1..Len(s)}

\* Iterator::position: the first index holding x, 0 for None
Position(s, x) ==
    IF Contains(s, x) THEN CHOOSE i \in 1..Len(s) : s[i] = x /\ \A j \in 1..(i-1) : s[j] /= x
    ELSE 0

\* Ord for String, on the identifiers of the model
Rank(a) == CHOOSE i \in 1..Len(AssetOrder) : AssetOrder[i] = a

\* HashMap::new()
EmptyMap == [k \in {} |-> <<>>]

\* the sum of the list lengths of a store
RECURSIVE SumLen(_, _)
SumLen(store, ks) ==
    IF ks = {} THEN 0
    ELSE LET k == CHOOSE x \in ks : TRUE IN Len(store[k]) + SumLen(store, ks \ {k})

TotalEdges(store) == SumLen(store, DOMAIN store)

\* the orders in which a HashMap may yield a set of keys
RECURSIVE Perms(_)
Perms(S) ==
    IF S = {} THEN {<<>>}
    ELSE UNION {{<<x>> \o p : p \in Perms(S \ {x})} : x \in S}

(***************************************************************************)
(* 4.1 Graph store                                                         *)
(***************************************************************************)
\* the push that is skipped when the list already holds the dependency
add_dependency_dedup(store, asset, dependency) ==
    IF asset \in DOMAIN store /\ Contains(store[asset], dependency) THEN store
    ELSE [k \in (DOMAIN store) \cup {asset} |->
            IF k = asset
            THEN (IF asset \in DOMAIN store THEN store[asset] ELSE <<>>) \o <<dependency>>
            ELSE store[k]]

\* entry(asset).or_insert_with(Vec::new).push(dependency)
add_dependency(store, asset, dependency) ==
    [k \in (DOMAIN store) \cup {asset} |->
        IF k = asset
        THEN Append(IF asset \in DOMAIN store THEN store[asset] ELSE <<>>, dependency)
        ELSE store[k]]

\* the removal that leaves an emptied list in the map
remove_dependency_keep_key(store, asset, dependency) ==
    IF asset \in DOMAIN store
    THEN [store EXCEPT ![asset] = SelectSeq(@, LAMBDA d : d /= dependency)]
    ELSE store

\* the removal that takes out the first occurrence only
remove_dependency_first_only(store, asset, dependency) ==
    IF asset \in DOMAIN store
    THEN LET i == Position(store[asset], dependency)
             deps == IF i = 0 THEN store[asset]
                     ELSE SubSeq(store[asset], 1, i - 1)
                          \o SubSeq(store[asset], i + 1, Len(store[asset]))
         IN IF deps = <<>>
            THEN [k \in (DOMAIN store) \ {asset} |-> store[k]]
            ELSE [store EXCEPT ![asset] = deps]
    ELSE store

\* deps.retain(|d| d != dependency); an emptied list removes the key
remove_dependency(store, asset, dependency) ==
    IF asset \in DOMAIN store
    THEN LET deps == SelectSeq(store[asset], LAMBDA d : d /= dependency)
         IN IF deps = <<>>
            THEN [k \in (DOMAIN store) \ {asset} |-> store[k]]
            ELSE [store EXCEPT ![asset] = deps]
    ELSE store

get_dependencies(store, asset) ==
    IF asset \in DOMAIN store THEN store[asset] ELSE <<>>

\* the reverse lookup that leaves out the asset itself
get_reverse_dependencies_no_self(store, asset, order) ==
    SelectSeq(order, LAMBDA key : key /= asset /\ Contains(store[key], asset))

\* iter().filter_map(..).collect(): the keys whose list contains asset, in the
\* order `order` in which the map yields its entries
get_reverse_dependencies(store, asset, order) ==
    SelectSeq(order, LAMBDA key : Contains(store[key], asset))

\* Vec::sort on Strings (stable insertion into a sorted prefix)
RECURSIVE InsertSorted(_, _)
InsertSorted(s, x) ==
    IF s = <<>> THEN <<x>>
    ELSE IF Rank(x) < Rank(Head(s)) THEN <<x>> \o s
    ELSE <<Head(s)>> \o InsertSorted(Tail(s), x)

RECURSIVE SortVec(_)
SortVec(s) ==
    IF s = <<>> THEN <<>>
    ELSE InsertSorted(SortVec(SubSeq(s, 1, Len(s) - 1)), s[Len(s)])

\* Vec::dedup: drops every element equal to the one before it
RECURSIVE DedupVec(_)
DedupVec(s) ==
    IF Len(s) <= 1 THEN s
    ELSE LET rest == DedupVec(Tail(s))
         IN IF Head(s) = Head(rest) THEN rest ELSE <<Head(s)>> \o rest

\* optimize with dedup() called before sort()
optimize_dedup_before_sort(store) ==
    LET norm == [k \in DOMAIN store |-> SortVec(DedupVec(store[k]))]
        kept == {k \in DOMAIN store : norm[k] /= <<>>}
    IN [store   |-> [k \in kept |-> norm[k]],
        removed |-> TotalEdges(store) - TotalEdges(norm)]

\* optimize without the sort() call
optimize_no_sort(store) ==
    LET norm == [k \in DOMAIN store |-> DedupVec(store[k])]
        kept == {k \in DOMAIN store : norm[k] /= <<>>}
    IN [store   |-> [k \in kept |-> norm[k]],
        removed |-> TotalEdges(store) - TotalEdges(norm)]

\* optimize that keeps the first entry of every list only
optimize_keep_first(store) ==
    LET norm == [k \in DOMAIN store |->
                    IF store[k] = <<>> THEN <<>> ELSE <<SortVec(store[k])[1]>>]
        kept == {k \in DOMAIN store : norm[k] /= <<>>}
    IN [store   |-> [k \in kept |-> norm[k]],
        removed |-> TotalEdges(store) - TotalEdges(norm)]

\* optimize: sort and dedup every list, count what went, drop the empty lists
optimize(store) ==
    LET norm == [k \in DOMAIN store |-> DedupVec(SortVec(store[k]))]
        kept == {k \in DOMAIN store : norm[k] /= <<>>}
    IN [store   |-> [k \in kept |-> norm[k]],
        removed |-> TotalEdges(store) - TotalEdges(norm)]

(***************************************************************************)
(* 4.2 Transitive closure                                                  *)
(***************************************************************************)
\* The state of one get_all_dependencies call: the visited set and the result
\* vector, both passed by &mut through the recursion.  `frames` counts the
\* open calls; a recursion needing more than StackBound frames is the call
\* that never returns (diverged).
RECURSIVE collect_dependencies_recursive(_, _, _, _)
RECURSIVE collect_deps_loop(_, _, _, _, _)

\* the loop without the `!result.contains(dep)` test
collect_deps_loop_push_always(store, deps, i, st, frames) ==
    IF i > Len(deps) \/ st.diverged THEN st
    ELSE LET dep == deps[i]
             pushed == [st EXCEPT !.result = Append(@, dep)]
         IN collect_deps_loop(store, deps, i + 1,
                collect_dependencies_recursive(store, dep, pushed, frames + 1), frames)

\* the loop pushing a dependency after its own dependencies
collect_deps_loop_post_order(store, deps, i, st, frames) ==
    IF i > Len(deps) \/ st.diverged THEN st
    ELSE LET dep == deps[i]
             below == collect_dependencies_recursive(store, dep, st, frames + 1)
             pushed == IF ~Contains(below.result, dep)
                       THEN [below EXCEPT !.result = Append(@, dep)]
                       ELSE below
         IN collect_deps_loop(store, deps, i + 1, pushed, frames)

collect_deps_loop(store, deps, i, st, frames) ==
    IF i > Len(deps) \/ st.diverged THEN st
    ELSE LET dep == deps[i]
             pushed == IF ~Contains(st.result, dep)
                       THEN [st EXCEPT !.result = Append(@, dep)]
                       ELSE st
         IN collect_deps_loop(store, deps, i + 1,
                collect_dependencies_recursive(store, dep, pushed, frames + 1), frames)

collect_dependencies_recursive(store, asset, st, frames) ==
    IF frames > StackBound THEN [st EXCEPT !.diverged = TRUE]
    ELSE IF asset \in st.visited THEN st
    ELSE LET st1 == [st EXCEPT !.visited = @ \cup {asset}]
         IN IF asset \in DOMAIN store
            THEN collect_deps_loop(store, store[asset], 1, st1, frames)
            ELSE st1

get_all_dependencies(store, asset) ==
    LET st == collect_dependencies_recursive(store, asset,
                  [visited |-> {}, result |-> <<>>, diverged |-> FALSE], 1)
    IN [ok |-> TRUE, value |-> st.result, diverged |-> st.diverged]

(***************************************************************************)
(* 4.3 Bounded tree                                                        *)
(***************************************************************************)
\* DependencyTree { asset, depth, dependencies, is_circular }
TreeNode(asset, depth, children, is_circular) ==
    [asset |-> asset, depth |-> depth, dependencies |-> children,
     is_circular |-> is_circular]

\* build_tree_recursive returns the node; `visited` is passed by &mut, so the
\* set each call leaves behind is returned with it.
RECURSIVE build_tree_recursive(_, _, _, _, _)
RECURSIVE build_tree_children(_, _, _, _, _, _)

\* deps.iter().map(|dep| self.build_tree_recursive(dep, depth + 1, ..)).collect()
build_tree_children(store, deps, i, depth, max_depth, acc) ==
    IF i > Len(deps) THEN acc
    ELSE LET r == build_tree_recursive(store, deps[i], depth + 1, max_depth, acc.visited)
         IN build_tree_children(store, deps, i + 1, depth, max_depth,
                [nodes |-> Append(acc.nodes, r.tree), visited |-> r.visited])

\* the depth limit tested before circularity
build_tree_depth_first(store, asset, depth, max_depth, visited) ==
    IF depth >= max_depth
    THEN [tree |-> TreeNode(asset, depth, <<>>, FALSE), visited |-> visited]
    ELSE IF asset \in visited
    THEN [tree |-> TreeNode(asset, depth, <<>>, TRUE), visited |-> visited]
    ELSE LET start == [nodes |-> <<>>, visited |-> visited \cup {asset}]
             kids == IF asset \in DOMAIN store
                     THEN build_tree_children(store, store[asset], 1, depth, max_depth, start)
                     ELSE start
         IN [tree |-> TreeNode(asset, depth, kids.nodes, FALSE),
             visited |-> kids.visited \ {asset}]

\* the depth limit tested with > instead of >=
build_tree_off_by_one(store, asset, depth, max_depth, visited) ==
    LET is_circular == asset \in visited
    IN IF is_circular \/ depth > max_depth
       THEN [tree |-> TreeNode(asset, depth, <<>>, is_circular), visited |-> visited]
       ELSE LET start == [nodes |-> <<>>, visited |-> visited \cup {asset}]
                kids == IF asset \in DOMAIN store
                        THEN build_tree_children(store, store[asset], 1, depth, max_depth, start)
                        ELSE start
            IN [tree |-> TreeNode(asset, depth, kids.nodes, FALSE),
                visited |-> kids.visited \ {asset}]

\* visited never shrinks: the asset is not removed on exit
build_tree_global_visited(store, asset, depth, max_depth, visited) ==
    LET is_circular == asset \in visited
    IN IF is_circular \/ depth >= max_depth
       THEN [tree |-> TreeNode(asset, depth, <<>>, is_circular), visited |-> visited]
       ELSE LET start == [nodes |-> <<>>, visited |-> visited \cup {asset}]
                kids == IF asset \in DOMAIN store
                        THEN build_tree_children(store, store[asset], 1, depth, max_depth, start)
                        ELSE start
            IN [tree |-> TreeNode(asset, depth, kids.nodes, FALSE),
                visited |-> kids.visited]

build_tree_recursive(store, asset, depth, max_depth, visited) ==
    LET is_circular == asset \in visited
    IN IF is_circular \/ depth >= max_depth
       THEN [tree |-> TreeNode(asset, depth, <<>>, is_circular), visited |-> visited]
       ELSE LET start == [nodes |-> <<>>, visited |-> visited \cup {asset}]
                kids == IF asset \in DOMAIN store
                        THEN build_tree_children(store, store[asset], 1, depth, max_depth, start)
                        ELSE start
            IN [tree |-> TreeNode(asset, depth, kids.nodes, FALSE),
                visited |-> kids.visited \ {asset}]

build_dependency_tree(store, asset, max_depth) ==
    build_tree_recursive(store, asset, 0, max_depth, {}).tree

(***************************************************************************)
(* 4.4 Whole-graph cycle detection                                         *)
(***************************************************************************)
\* The locals of detect_circular_dependencies (visited, recursion_stack,
\* circular_refs) and of the recursion below it: `path`, and in `idx` the
\* position of each open call's `for dep in deps` loop (idx[k] belongs to the
\* call exploring path[k]).  `panicked` is the unwrap() of position() failing.
NoDfs ==
    [visited |-> {}, recursion_stack |-> {}, path |-> <<>>, idx |-> <<>>,
     circular_refs |-> <<>>, panicked |-> FALSE]

\* entry of detect_cycles_dfs(asset)
DfsEnter(c, asset) ==
    [c EXCEPT !.visited = @ \cup {asset},
              !.recursion_stack = @ \cup {asset},
              !.path = Append(@, asset),
              !.idx = Append(@, 1)]

\* the exit without recursion_stack.remove(asset)
DfsExitKeepStack(c) ==
    [c EXCEPT !.path = SubSeq(@, 1, Len(@) - 1),
              !.idx = SubSeq(@, 1, Len(@) - 1)]

\* exit of detect_cycles_dfs: path.pop(); recursion_stack.remove(asset)
DfsExit(c) ==
    [c EXCEPT !.recursion_stack = @ \ {c.path[Len(c.path)]},
              !.path = SubSeq(@, 1, Len(@) - 1),
              !.idx = SubSeq(@, 1, Len(@) - 1)]

\* the branch reporting a cycle only the first time it is seen
DfsReportOnce(c, dep) ==
    LET cycle_start == Position(c.path, dep)
        cycle == SubSeq(c.path, cycle_start, Len(c.path))
    IN IF cycle_start = 0
       THEN [c EXCEPT !.panicked = TRUE]
       ELSE IF Contains(c.circular_refs, cycle) THEN c
       ELSE [c EXCEPT !.circular_refs = Append(@, cycle)]

\* the branch reporting the whole path instead of its suffix
DfsReportFromRoot(c, dep) ==
    [c EXCEPT !.circular_refs = Append(@, c.path)]

\* the `else if recursion_stack.contains(dep)` branch
DfsReport(c, dep) ==
    LET cycle_start == Position(c.path, dep)
    IN IF cycle_start = 0
       THEN [c EXCEPT !.panicked = TRUE]
       ELSE [c EXCEPT !.circular_refs = Append(@, SubSeq(c.path, cycle_start, Len(c.path)))]

\* the step without the recursion_stack branch
detect_cycles_dfs_no_stack(store, c) ==
    LET n == Len(c.path)
        asset == c.path[n]
        deps == IF asset \in DOMAIN store THEN store[asset] ELSE <<>>
        i == c.idx[n]
    IN IF i > Len(deps) THEN DfsExit(c)
       ELSE LET dep == deps[i]
                c1 == [c EXCEPT !.idx[n] = i + 1]
            IN IF dep \notin c1.visited THEN DfsEnter(c1, dep)
               ELSE c1

\* One step of the innermost open call of detect_cycles_dfs: it looks at the
\* next entry of its dependency list, or returns when the list is done.
detect_cycles_dfs(store, c) ==
    LET n == Len(c.path)
        asset == c.path[n]
        deps == IF asset \in DOMAIN store THEN store[asset] ELSE <<>>
        i == c.idx[n]
    IN IF i > Len(deps) THEN DfsExit(c)
       ELSE LET dep == deps[i]
                c1 == [c EXCEPT !.idx[n] = i + 1]
            IN IF dep \notin c1.visited THEN DfsEnter(c1, dep)
               ELSE IF dep \in c1.recursion_stack THEN DfsReport(c1, dep)
               ELSE c1

\* Steps a top-level detect_cycles_dfs call is given before it counts as never
\* returning: it looks at each list entry once and returns from each asset once.
DfsFuel == 2 * (MaxEdges + MaxDfsEdges + MaxApiEdges + Cardinality(Assets)) + StackBound

\* detect_cycles_dfs run until the top-level call has returned
RECURSIVE run_cycles_dfs(_, _, _)
run_cycles_dfs(store, c, fuel) ==
    IF c.path = <<>> \/ c.panicked \/ fuel = 0 THEN c
    ELSE run_cycles_dfs(store, detect_cycles_dfs(store, c), fuel - 1)

\* for asset in self.dependencies.keys() { if !visited.contains(asset) {..} },
\* the keys coming in the order `order`
RECURSIVE detect_keys_loop(_, _, _, _)
detect_keys_loop(store, order, k, c) ==
    IF k > Len(order) \/ c.panicked \/ c.path /= <<>> THEN c
    ELSE detect_keys_loop(store, order, k + 1,
             IF order[k] \notin c.visited
             THEN run_cycles_dfs(store, DfsEnter(c, order[k]), DfsFuel)
             ELSE c)

detect_circular_dependencies(store, order) ==
    LET c == detect_keys_loop(store, order, 1, NoDfs)
    IN [value |-> c.circular_refs, panicked |-> c.panicked,
        diverged |-> ~c.panicked /\ c.path /= <<>>]

(***************************************************************************)
(* 4.5 Depth, 4.6 Statistics                                               *)
(***************************************************************************)
\* calculate_depth_recursive returns the depth; `visited` is passed by &mut
\* and returned with it.  `frames` counts the open calls, as above.
RECURSIVE calculate_depth_recursive(_, _, _, _)
RECURSIVE depth_children_max(_, _, _, _, _)

\* deps.iter().map(|dep| self.calculate_depth_recursive(dep, visited)).max().unwrap_or(0)
depth_children_max(store, deps, i, acc, frames) ==
    IF i > Len(deps) \/ acc.diverged THEN acc
    ELSE LET r == calculate_depth_recursive(store, deps[i], acc.visited, frames + 1)
         IN depth_children_max(store, deps, i + 1,
                [depth |-> IF r.depth > acc.depth THEN r.depth ELSE acc.depth,
                 visited |-> r.visited, diverged |-> r.diverged], frames)

\* the recursion without the `visited.contains(asset)` test
calculate_depth_unguarded(store, asset, visited, frames) ==
    IF frames > StackBound THEN [depth |-> 0, visited |-> visited, diverged |-> TRUE]
    ELSE LET start == [depth |-> 0, visited |-> visited \cup {asset}, diverged |-> FALSE]
             kids == IF asset \in DOMAIN store
                     THEN depth_children_max(store, store[asset], 1, start, frames)
                     ELSE start
         IN [depth |-> kids.depth + 1, visited |-> kids.visited \ {asset},
             diverged |-> kids.diverged]

\* the recursion without `visited.remove(asset)`
calculate_depth_global_visited(store, asset, visited, frames) ==
    IF frames > StackBound THEN [depth |-> 0, visited |-> visited, diverged |-> TRUE]
    ELSE IF asset \in visited THEN [depth |-> 0, visited |-> visited, diverged |-> FALSE]
    ELSE LET start == [depth |-> 0, visited |-> visited \cup {asset}, diverged |-> FALSE]
             kids == IF asset \in DOMAIN store
                     THEN depth_children_max(store, store[asset], 1, start, frames)
                     ELSE start
         IN [depth |-> kids.depth + 1, visited |-> kids.visited, diverged |-> kids.diverged]

calculate_depth_recursive(store, asset, visited, frames) ==
    IF frames > StackBound THEN [depth |-> 0, visited |-> visited, diverged |-> TRUE]
    ELSE IF asset \in visited THEN [depth |-> 0, visited |-> visited, diverged |-> FALSE]
    ELSE LET start == [depth |-> 0, visited |-> visited \cup {asset}, diverged |-> FALSE]
             kids == IF asset \in DOMAIN store
                     THEN depth_children_max(store, store[asset], 1, start, frames)
                     ELSE start
         IN [depth |-> kids.depth + 1, visited |-> kids.visited \ {asset},
             diverged |-> kids.diverged]

\* the depth counted in edges
calculate_max_depth_edges(store, asset) ==
    LET r == calculate_depth_recursive(store, asset, {}, 1)
    IN [r EXCEPT !.depth = IF @ > 0 THEN @ - 1 ELSE 0]

calculate_max_depth(store, asset) ==
    calculate_depth_recursive(store, asset, {}, 1)

\* every identifier that appears in a dependency list
Referenced(store) == UNION {Elems(store[k]) : k \in DOMAIN store}

\* the test without `is_referenced`
find_orphaned_assets_unreferenced_too(store, all_assets) ==
    SelectSeq(all_assets, LAMBDA asset : ~(asset \in DOMAIN store))

find_orphaned_assets(store, all_assets) ==
    SelectSeq(all_assets, LAMBDA asset :
        ~(asset \in DOMAIN store) /\ ~(asset \in Referenced(store)))

\* how often dep occurs in the lists of the store
RECURSIVE CountIn(_, _)
CountIn(s, x) ==
    IF s = <<>> THEN 0 ELSE (IF Head(s) = x THEN 1 ELSE 0) + CountIn(Tail(s), x)

RECURSIVE ReferenceCount(_, _, _)
ReferenceCount(store, ks, dep) ==
    IF ks = {} THEN 0
    ELSE LET k == CHOOSE x \in ks : TRUE
         IN CountIn(store[k], dep) + ReferenceCount(store, ks \ {k}, dep)

\* sort_by(|a, b| b.1.cmp(&a.1)): stable, descending by count
RECURSIVE InsertByCount(_, _)
InsertByCount(s, x) ==
    IF s = <<>> THEN <<x>>
    ELSE IF x[2] > Head(s)[2] THEN <<x>> \o s
    ELSE <<Head(s)>> \o InsertByCount(Tail(s), x)

RECURSIVE SortByCount(_)
SortByCount(s) ==
    IF s = <<>> THEN <<>>
    ELSE InsertByCount(SortByCount(SubSeq(s, 1, Len(s) - 1)), s[Len(s)])

\* truncate(limit) called before sort_by
get_most_referenced_truncate_first(store, limit, ref_order) ==
    LET counted == [i \in 1..Len(ref_order) |->
                        <<ref_order[i], ReferenceCount(store, DOMAIN store, ref_order[i])>>]
        cut == SubSeq(counted, 1, IF Len(counted) < limit THEN Len(counted) ELSE limit)
    IN SortByCount(cut)

\* reference_counts.into_iter() yields the counted identifiers in `ref_order`
get_most_referenced_assets(store, limit, ref_order) ==
    LET counted == [i \in 1..Len(ref_order) |->
                        <<ref_order[i], ReferenceCount(store, DOMAIN store, ref_order[i])>>]
        sorted_refs == SortByCount(counted)
    IN SubSeq(sorted_refs, 1, IF Len(sorted_refs) < limit THEN Len(sorted_refs) ELSE limit)

\* all_assets.iter().map(|asset| self.calculate_max_depth(asset)).max().unwrap_or(0)
RECURSIVE roster_max_depth(_, _, _, _)

\* the depth of the last roster entry instead of the deepest
roster_last_depth(store, all_assets, i, acc) ==
    IF i > Len(all_assets) \/ acc.diverged THEN acc
    ELSE LET r == calculate_max_depth(store, all_assets[i])
         IN roster_max_depth(store, all_assets, i + 1,
                [depth |-> r.depth, diverged |-> r.diverged])

roster_max_depth(store, all_assets, i, acc) ==
    IF i > Len(all_assets) \/ acc.diverged THEN acc
    ELSE LET r == calculate_max_depth(store, all_assets[i])
         IN roster_max_depth(store, all_assets, i + 1,
                [depth |-> IF r.depth > acc.depth THEN r.depth ELSE acc.depth,
                 diverged |-> r.diverged])

\* get_most_referenced_assets(10) inside generate_statistics
MostReferencedLimit == 10

generate_statistics(store, all_assets, order, ref_order) ==
    LET cycles == detect_circular_dependencies(store, order)
        deepest == roster_max_depth(store, all_assets, 1, [depth |-> 0, diverged |-> FALSE])
    IN [total_dependencies  |-> TotalEdges(store),
        max_depth           |-> deepest.depth,
        circular_references |-> cycles.value,
        orphaned_assets     |-> find_orphaned_assets(store, all_assets),
        most_referenced     |-> get_most_referenced_assets(store, MostReferencedLimit, ref_order),
        panicked            |-> cycles.panicked,
        diverged            |-> cycles.diverged \/ deepest.diverged]

\* the rosters a caller passes as all_assets
Rosters == UNION {[1..n -> Assets] : n \in 0..MaxRoster}

\* the rosters the depth of which generate_statistics is asked for
StatRosters == UNION {[1..n -> LiteralNames] : n \in 0..MaxStatRoster}

\* self.build_dependency_tree(asset, 5)
AnalyzeTreeDepth == 5

analyze_asset_dependencies(store, asset, all_assets, order, ref_order) ==
    [asset_name           |-> asset,
     direct_dependencies  |-> get_dependencies(store, asset),
     reverse_dependencies |-> get_reverse_dependencies(store, asset, order),
     dependency_tree      |-> build_dependency_tree(store, asset, AnalyzeTreeDepth),
     statistics           |-> generate_statistics(store, all_assets, order, ref_order)]

\* the rosters a caller passes to find_orphaned_assets
OrphanRosters == UNION {[1..n -> RosterNames] : n \in 0..MaxOrphanRoster}

(***************************************************************************)
(* 4.9 Exporter: csv                                                       *)
(***************************************************************************)
\* The exported String is the sequence of the pieces pushed onto it: the
\* identifiers, the "," of the format string and the line ends.
RECURSIVE csv_push_deps(_, _, _, _)

\* the loop writing a row only for the first occurrence of a dependency
csv_push_deps_first_only(asset, deps, i, csv) ==
    IF i > Len(deps) THEN csv
    ELSE csv_push_deps(asset, deps, i + 1,
             IF Contains(SubSeq(deps, 1, i - 1), deps[i]) THEN csv
             ELSE csv \o <<asset, ",", deps[i], "\n">>)

csv_push_deps(asset, deps, i, csv) ==
    IF i > Len(deps) THEN csv
    ELSE csv_push_deps(asset, deps, i + 1, csv \o <<asset, ",", deps[i], "\n">>)

\* for (asset, deps) in &self.dependencies, the entries coming in `order`
RECURSIVE csv_push_assets(_, _, _, _)
csv_push_assets(store, order, k, csv) ==
    IF k > Len(order) THEN csv
    ELSE csv_push_assets(store, order, k + 1,
             csv_push_deps(order[k], store[order[k]], 1, csv))

export_to_csv(store, order) ==
    csv_push_assets(store, order, 1, <<"Asset", ",", "Dependency", "\n">>)

(***************************************************************************)
(* 4.9 Exporter: dot, json and the dispatch on the format name             *)
(***************************************************************************)
\* keys().cloned().chain(values().flat_map(..)).collect::<HashSet<String>>(),
\* from the keys alone
dot_all_assets_keys_only(store) == DOMAIN store

\* keys().cloned().chain(values().flat_map(..)).collect::<HashSet<String>>()
dot_all_assets(store) == (DOMAIN store) \cup Referenced(store)

\* for asset in &all_assets, the set yielding its elements in `node_order`
RECURSIVE dot_push_nodes(_, _, _)
dot_push_nodes(node_order, k, dot) ==
    IF k > Len(node_order) THEN dot
    ELSE dot_push_nodes(node_order, k + 1, dot \o <<"    \"", node_order[k], "\";", "\n">>)

RECURSIVE dot_push_deps(_, _, _, _)
dot_push_deps(asset, deps, i, dot) ==
    IF i > Len(deps) THEN dot
    ELSE dot_push_deps(asset, deps, i + 1,
             dot \o <<"    \"", asset, "\" -> \"", deps[i], "\";", "\n">>)

\* for (asset, deps) in &self.dependencies, the entries coming in `order`
RECURSIVE dot_push_assets(_, _, _, _)
dot_push_assets(store, order, k, dot) ==
    IF k > Len(order) THEN dot
    ELSE dot_push_assets(store, order, k + 1,
             dot_push_deps(order[k], store[order[k]], 1, dot))

export_to_dot(store, node_order, order) ==
    LET head == <<"digraph AssetDependencies {", "\n",
                  "    rankdir=LR;", "\n",
                  "    node [shape=box, style=rounded];", "\n", "\n">>
        nodes == dot_push_nodes(node_order, 1, head) \o <<"\n">>
        edges == dot_push_assets(store, order, 1, nodes)
    IN edges \o <<"}", "\n">>

\* a JSON string
json_string(x) == <<"\"", x, "\"">>

\* a JSON array of strings
RECURSIVE json_array_items(_, _)
json_array_items(deps, i) ==
    IF i > Len(deps) THEN <<>>
    ELSE (IF i > 1 THEN <<",">> ELSE <<>>) \o json_string(deps[i])
         \o json_array_items(deps, i + 1)

\* the members of the JSON object of the map, its entries coming in `order`
RECURSIVE json_map_members(_, _, _)
json_map_members(store, order, k) ==
    IF k > Len(order) THEN <<>>
    ELSE (IF k > 1 THEN <<",">> ELSE <<>>)
         \o json_string(order[k]) \o <<":", "[">>
         \o json_array_items(store[order[k]], 1) \o <<"]">>
         \o json_map_members(store, order, k + 1)

\* serde_json::to_string_pretty(self), without its white space
export_to_json(store, order) ==
    <<"{">> \o json_string("dependencies") \o <<":", "{">>
    \o json_map_members(store, order, 1) \o <<"}", "}">>

\* A format name is the sequence of its characters.
UpperCase == <<"A", "B", "C", "D", "E", "F", "G", "H", "I", "J", "K", "L", "M",
               "N", "O", "P", "Q", "R", "S", "T", "U", "V", "W", "X", "Y", "Z">>
LowerCase == <<"a", "b", "c", "d", "e", "f", "g", "h", "i", "j", "k", "l", "m",
               "n", "o", "p", "q", "r", "s", "t", "u", "v", "w", "x", "y", "z">>

\* str::to_lowercase, on the characters of the model
to_lowercase(s) ==
    [i \in 1..Len(s) |->
        IF \E k \in 1..Len(UpperCase) : UpperCase[k] = s[i]
        THEN LowerCase[CHOOSE k \in 1..Len(UpperCase) : UpperCase[k] = s[i]]
        ELSE s[i]]

\* the match without to_lowercase()
export_to_format_case_sensitive(store, format, node_order, order) ==
    IF format = <<"j", "s", "o", "n">>
    THEN [ok |-> TRUE, value |-> export_to_json(store, order)]
    ELSE IF format = <<"d", "o", "t">>
    THEN [ok |-> TRUE, value |-> export_to_dot(store, node_order, order)]
    ELSE IF format = <<"c", "s", "v">>
    THEN [ok |-> TRUE, value |-> export_to_csv(store, order)]
    ELSE IF format = <<"y", "a", "m", "l">>
    THEN [ok |-> TRUE, value |-> <<"YAML export not implemented yet">>]
    ELSE [ok |-> FALSE, error |-> <<"Unsupported export format: ">> \o format]

\* match format.to_lowercase().as_str() { .. }
export_to_format(store, format, node_order, order) ==
    LET name == to_lowercase(format)
    IN IF name = <<"j", "s", "o", "n">>
       THEN [ok |-> TRUE, value |-> export_to_json(store, order)]
       ELSE IF name = <<"d", "o", "t">>
       THEN [ok |-> TRUE, value |-> export_to_dot(store, node_order, order)]
       ELSE IF name = <<"c", "s", "v">>
       THEN [ok |-> TRUE, value |-> export_to_csv(store, order)]
       ELSE IF name = <<"y", "a", "m", "l">>
       THEN [ok |-> TRUE, value |-> <<"YAML export not implemented yet">>]
       ELSE [ok |-> FALSE, error |-> <<"Unsupported export format: ">> \o format]

\* the format names a caller passes
FormatNames ==
    {<<"j", "s", "o", "n">>, <<"J", "s", "O", "N">>,
     <<"d", "o", "t">>, <<"D", "o", "T">>,
     <<"c", "s", "v">>, <<"c", "S", "v">>,
     <<"y", "a", "m", "l">>, <<"Y", "A", "M", "L">>, <<"Y", "a", "m", "l">>,
     <<"x", "m", "l">>, <<"X", "M", "L">>, <<>>, <<"d", "o">>,
     <<"j", "s", "o", "n", "l">>, <<" ", "c", "s", "v">>}

(***************************************************************************)
(* 4.10 Filter                                                             *)
(***************************************************************************)
\* the characters of an asset name
Spelling(name) ==
    CASE name = "Mat" -> <<"M", "a", "t">>
      [] name = "xMAT" -> <<"x", "M", "A", "T">>
      [] name = "Mesh" -> <<"M", "e", "s", "h">>
      [] OTHER -> <<name>>

\* str::contains
str_contains(s, t) ==
    \E i \in 0..(Len(s) - Len(t)) : SubSeq(s, i + 1, i + Len(t)) = t

\* str::starts_with in the place of str::contains
asset_matches_prefix(asset, asset_types) ==
    \E i \in 1..Len(asset_types) :
        LET s == to_lowercase(Spelling(asset))
            t == to_lowercase(asset_types[i])
        IN Len(t) <= Len(s) /\ SubSeq(s, 1, Len(t)) = t

\* asset_types.iter().any(|t| asset.to_lowercase().contains(&t.to_lowercase()))
asset_matches(asset, asset_types) ==
    \E i \in 1..Len(asset_types) :
        str_contains(to_lowercase(Spelling(asset)), to_lowercase(asset_types[i]))

\* for dep in deps { filtered.add_dependency(asset, dep) }
RECURSIVE filter_push_deps(_, _, _, _)
filter_push_deps(asset, deps, i, filtered) ==
    IF i > Len(deps) THEN filtered
    ELSE filter_push_deps(asset, deps, i + 1, add_dependency(filtered, asset, deps[i]))

\* for (asset, deps) in &map.dependencies, the entries coming in `order`
RECURSIVE filter_push_assets(_, _, _, _, _)
filter_push_assets(map, asset_types, order, k, filtered) ==
    IF k > Len(order) THEN filtered
    ELSE filter_push_assets(map, asset_types, order, k + 1,
             IF asset_matches(order[k], asset_types)
             THEN filter_push_deps(order[k], map[order[k]], 1, filtered)
             ELSE filtered)

filter_by_asset_type(map, asset_types, order) ==
    filter_push_assets(map, asset_types, order, 1, EmptyMap)

\* the substrings a caller passes
TypeNames ==
    {<<"m", "a", "t">>, <<"e", "S">>, <<>>, <<"m", "a", "t", "x">>}

AssetTypes == UNION {[1..n -> TypeNames] : n \in 0..MaxTypes}

\* the maps an owner builds with the names of FilterNames
FilterLiterals ==
    UNION {[ks -> UNION {[1..n -> FilterNames] : n \in 0..1}] : ks \in SUBSET FilterNames}

(***************************************************************************)
(* 4.7 Validator                                                           *)
(***************************************************************************)
\* The third check of validate(): one "Asset {} has empty dependency list"
\* diagnostic for each key whose list is empty, the keys coming in `order`.
validate_empty_lists(store, order) ==
    LET flagged == SelectSeq(order, LAMBDA asset : store[asset] = <<>>)
    IN [i \in 1..Len(flagged) |-> <<"Asset", flagged[i], "has empty dependency list">>]

\* cycle.join(" -> ")
RECURSIVE Join(_, _)
Join(s, sep) ==
    IF Len(s) <= 1 THEN s
    ELSE <<Head(s), sep>> \o Join(Tail(s), sep)

\* The first check of validate(): one diagnostic for each key that is in its
\* own list.
validate_self_references(store, order) ==
    LET flagged == SelectSeq(order, LAMBDA asset : Contains(store[asset], asset))
    IN [i \in 1..Len(flagged) |->
            <<"Self-reference detected: ", flagged[i], " depends on itself">>]

\* The second check: one diagnostic for each cycle of
\* detect_circular_dependencies.
validate_cycles(circular_deps) ==
    [i \in 1..Len(circular_deps) |->
        <<"Circular dependency detected: ">> \o Join(circular_deps[i], " -> ")]

\* validate() without its first check
validate_cycles_only(store, order) ==
    LET cycles == detect_circular_dependencies(store, order)
    IN [value    |-> validate_cycles(cycles.value) \o validate_empty_lists(store, order),
        panicked |-> cycles.panicked,
        diverged |-> cycles.diverged]

\* The three loops read the same unmodified map, so its entries come in the
\* same order in each.
validate(store, order) ==
    LET cycles == detect_circular_dependencies(store, order)
    IN [value    |-> validate_self_references(store, order)
                     \o validate_cycles(cycles.value)
                     \o validate_empty_lists(store, order),
        panicked |-> cycles.panicked,
        diverged |-> cycles.diverged]

(***************************************************************************)
(* 4.10 Set operations: merge                                              *)
(***************************************************************************)
\* for dep in deps { merged.add_dependency(&asset, &dep) }
RECURSIVE merge_push_deps(_, _, _, _)
merge_push_deps(merged, asset, deps, i) ==
    IF i > Len(deps) THEN merged
    ELSE merge_push_deps(add_dependency(merged, asset, deps[i]), asset, deps, i + 1)

\* for (asset, deps) in map.dependencies, the entries coming in `order`
RECURSIVE merge_push_assets(_, _, _, _)
merge_push_assets(merged, map, order, k) ==
    IF k > Len(order) THEN merged
    ELSE merge_push_assets(merge_push_deps(merged, order[k], map[order[k]], 1),
                           map, order, k + 1)

\* for map in maps, orders[m] being the order in which maps[m] yields its entries
RECURSIVE merge_push_maps(_, _, _, _)
merge_push_maps(merged, maps, orders, m) ==
    IF m > Len(maps) THEN merged
    ELSE merge_push_maps(merge_push_assets(merged, maps[m], orders[m], 1),
                         maps, orders, m + 1)

\* the merge without the trailing optimize()
merge_without_optimize(maps, orders) ==
    merge_push_maps(EmptyMap, maps, orders, 1)

merge_dependency_maps(maps, orders) ==
    optimize(merge_push_maps(EmptyMap, maps, orders, 1)).store

\* The stores a struct literal `DependencyMap { dependencies: .. }` builds:
\* any map, also one holding an empty list.
LiteralLists == UNION {[1..n -> LiteralNames] : n \in 0..MaxLiteralLen}

Literals == UNION {[ks -> LiteralLists] : ks \in SUBSET LiteralNames}

(***************************************************************************)
(* The API server: AppState and its handlers                               *)
(***************************************************************************)
\* the fields of AppState, each an Arc<tokio::sync::Mutex<..>>
Locks == {"assets", "dependencies"}

TaskIds == 1..MaxTasks

NoOwner == 0

NoTask == [kind |-> "none", param |-> "", pc |-> "none", held |-> <<>>, response |-> <<>>]

(***************************************************************************)
(* The calls                                                               *)
(***************************************************************************)
NoCall == [op |-> "none"]

Idle == pc = "idle" /\ call = NoCall

\* the call that has just returned, without the call it followed
Returned == [f \in (DOMAIN call) \ {"prev"} |-> call[f]]

\* no call is running, and the last one was of `op` or its value was dropped
IdleOrAfter(op) == pc = "idle" /\ call.op \in {"none", op}

\* the store of a caller of the library: no server, no request
Init ==
    /\ dependencies = EmptyMap
    /\ call = NoCall
    /\ pc = "idle"
    /\ keys_left = {}
    /\ dfs = NoDfs
    /\ mutex = [l \in Locks |-> NoOwner]
    /\ tasks = [t \in TaskIds |-> NoTask]

AddDependency(asset, dependency) ==
    /\ Idle
    /\ dependencies' = add_dependency(dependencies, asset, dependency)
    /\ call' = [op |-> "add_dependency", asset |-> asset, dependency |-> dependency,
                before |-> dependencies]
    /\ UNCHANGED <<pc, keys_left, dfs, mutex, tasks>>

RemoveDependency(asset, dependency) ==
    /\ Idle
    /\ dependencies' = remove_dependency(dependencies, asset, dependency)
    /\ call' = [op |-> "remove_dependency", asset |-> asset, dependency |-> dependency,
                before |-> dependencies]
    /\ UNCHANGED <<pc, keys_left, dfs, mutex, tasks>>

\* optimize() returns a usize: it may be called again at once
Optimize ==
    /\ IdleOrAfter("optimize")
    /\ LET r == optimize(dependencies)
       IN /\ dependencies' = r.store
          /\ call' = [op |-> "optimize", before |-> dependencies, ret |-> r.removed,
                      prev |-> Returned]
    /\ UNCHANGED <<pc, keys_left, dfs, mutex, tasks>>

GetAllDependencies(asset) ==
    /\ Idle
    /\ call' = [op |-> "get_all_dependencies", asset |-> asset,
                ret |-> get_all_dependencies(dependencies, asset)]
    /\ UNCHANGED <<dependencies, pc, keys_left, dfs, mutex, tasks>>

BuildDependencyTree(asset, max_depth) ==
    /\ Idle
    /\ call' = [op |-> "build_dependency_tree", asset |-> asset, max_depth |-> max_depth,
                ret |-> build_dependency_tree(dependencies, asset, max_depth)]
    /\ UNCHANGED <<dependencies, pc, keys_left, dfs, mutex, tasks>>

DetectCircularDependencies(order) ==
    /\ Idle
    /\ call' = [op |-> "detect_circular_dependencies", order |-> order,
                ret |-> detect_circular_dependencies(dependencies, order)]
    /\ UNCHANGED <<dependencies, pc, keys_left, dfs, mutex, tasks>>

GenerateStatistics(all_assets) ==
    /\ Idle
    /\ TotalEdges(dependencies) <= MaxStatEdges
    /\ \E order \in Perms(DOMAIN dependencies),
          ref_order \in Perms(Referenced(dependencies)) :
            call' = [op |-> "generate_statistics", all_assets |-> all_assets,
                     ret |-> generate_statistics(dependencies, all_assets, order, ref_order)]
    /\ UNCHANGED <<dependencies, pc, keys_left, dfs, mutex, tasks>>

\* the lookup through entry(asset).or_default(), which makes the asset a key
GetDependenciesInserting(asset) ==
    /\ IdleOrAfter("add_dependency")
    /\ dependencies' = IF asset \in DOMAIN dependencies THEN dependencies
                       ELSE [k \in (DOMAIN dependencies) \cup {asset} |->
                               IF k = asset THEN <<>> ELSE dependencies[k]]
    /\ call' = [op |-> "get_dependencies", asset |-> asset,
                ret |-> get_dependencies(dependencies, asset), prev |-> Returned]
    /\ UNCHANGED <<pc, keys_left, dfs, mutex, tasks>>

\* add_dependency returns (): a lookup may follow it at once
GetDependencies(asset) ==
    /\ IdleOrAfter("add_dependency")
    /\ call' = [op |-> "get_dependencies", asset |-> asset,
                ret |-> get_dependencies(dependencies, asset), prev |-> Returned]
    /\ UNCHANGED <<dependencies, pc, keys_left, dfs, mutex, tasks>>

GetReverseDependencies(asset, order) ==
    /\ IdleOrAfter("add_dependency")
    /\ call' = [op |-> "get_reverse_dependencies", asset |-> asset,
                ret |-> get_reverse_dependencies(dependencies, asset, order),
                prev |-> Returned]
    /\ UNCHANGED <<dependencies, pc, keys_left, dfs, mutex, tasks>>

AnalyzeAssetDependencies(asset, all_assets) ==
    /\ Idle
    /\ \E order \in Perms(DOMAIN dependencies),
          ref_order \in Perms(Referenced(dependencies)) :
            call' = [op |-> "analyze_asset_dependencies", asset |-> asset,
                     all_assets |-> all_assets,
                     ret |-> analyze_asset_dependencies(dependencies, asset, all_assets,
                                                        order, ref_order)]
    /\ UNCHANGED <<dependencies, pc, keys_left, dfs, mutex, tasks>>

CalculateMaxDepth(asset) ==
    /\ Idle
    /\ call' = [op |-> "calculate_max_depth", asset |-> asset,
                ret |-> calculate_max_depth(dependencies, asset)]
    /\ UNCHANGED <<dependencies, pc, keys_left, dfs, mutex, tasks>>

FindOrphanedAssets(all_assets) ==
    /\ Idle
    /\ call' = [op |-> "find_orphaned_assets", all_assets |-> all_assets,
                ret |-> find_orphaned_assets(dependencies, all_assets)]
    /\ UNCHANGED <<dependencies, pc, keys_left, dfs, mutex, tasks>>

GetMostReferencedAssets(limit, ref_order) ==
    /\ Idle
    /\ call' = [op |-> "get_most_referenced_assets", limit |-> limit,
                ret |-> get_most_referenced_assets(dependencies, limit, ref_order)]
    /\ UNCHANGED <<dependencies, pc, keys_left, dfs, mutex, tasks>>

\* export_to_format("csv")
ExportToCsv(order) ==
    /\ Idle
    /\ call' = [op |-> "export_to_csv", ret |-> export_to_csv(dependencies, order)]
    /\ UNCHANGED <<dependencies, pc, keys_left, dfs, mutex, tasks>>

\* The map is iterated, in some order, on the json, dot and csv branches
\* only; the set of nodes is built, and yields its elements in some order,
\* on the dot branch only.
ExportToFormat(format) ==
    /\ Idle
    /\ \E order \in (IF to_lowercase(format) \in {<<"j", "s", "o", "n">>, <<"d", "o", "t">>,
                                                  <<"c", "s", "v">>}
                     THEN Perms(DOMAIN dependencies) ELSE {<<>>}),
          node_order \in (IF to_lowercase(format) = <<"d", "o", "t">>
                          THEN Perms(dot_all_assets(dependencies)) ELSE {<<>>}) :
          call' = [op |-> "export_to_format", format |-> format, before |-> dependencies,
                   order |-> order, node_order |-> node_order,
                   ret |-> export_to_format(dependencies, format, node_order, order)]
    /\ UNCHANGED <<dependencies, pc, keys_left, dfs, mutex, tasks>>

FilterByAssetType(asset_types) ==
    /\ Idle
    /\ \E order \in Perms(DOMAIN dependencies) :
          call' = [op |-> "filter_by_asset_type", asset_types |-> asset_types,
                   before |-> dependencies,
                   ret |-> filter_by_asset_type(dependencies, asset_types, order)]
    /\ UNCHANGED <<dependencies, pc, keys_left, dfs, mutex, tasks>>

Validate(order) ==
    /\ Idle
    /\ call' = [op |-> "validate", order |-> order, ret |-> validate(dependencies, order)]
    /\ UNCHANGED <<dependencies, pc, keys_left, dfs, mutex, tasks>>

\* utils::merge_dependency_maps: the maps are the caller's, the store returned
\* is a new one
MergeDependencyMaps(maps) ==
    /\ Idle
    /\ \E orders \in [1..Len(maps) -> UNION {Perms(DOMAIN maps[m]) : m \in 1..Len(maps)}] :
          /\ \A m \in 1..Len(maps) : orders[m] \in Perms(DOMAIN maps[m])
          /\ call' = [op |-> "merge_dependency_maps", maps |-> maps,
                      ret |-> merge_dependency_maps(maps, orders)]
    /\ UNCHANGED <<dependencies, pc, keys_left, dfs, mutex, tasks>>

\* DependencyMap { dependencies: .. } in the place of DependencyMap::new():
\* the store starts as a map of the owner's making
StructLiteral(store) ==
    /\ Idle
    /\ dependencies = EmptyMap
    /\ dependencies' = store
    /\ call' = [op |-> "struct_literal"]
    /\ UNCHANGED <<pc, keys_left, dfs, mutex, tasks>>

\* the caller is done with the returned value
Drop ==
    /\ pc = "idle"
    /\ call /= NoCall
    /\ call' = NoCall
    /\ UNCHANGED <<dependencies, pc, keys_left, dfs, mutex, tasks>>

\* the store has room for one more list entry
Room(limit) == TotalEdges(dependencies) < limit

(***************************************************************************)
(* The API server: the handlers                                            *)
(***************************************************************************)
\* the routes of the Router
HandlerKinds == {"get_assets", "get_preview_http", "get_dependencies_http", "health_check"}

\* create_mock_assets(): the name and asset_type of each Asset
create_mock_assets ==
    << [name |-> "PlayerCharacterMesh", asset_type |-> "mesh"],
       [name |-> "MainMenuBackground", asset_type |-> "texture"],
       [name |-> "AmbientForestLoop", asset_type |-> "audio"],
       [name |-> "WeaponSwordMaterial", asset_type |-> "material"],
       [name |-> "ExplosionParticles", asset_type |-> "particle_system"] >>

create_mock_dependencies ==
    [k \in {"PlayerCharacterMesh", "MainMenuBackground", "WeaponSwordMaterial",
            "ExplosionParticles"} |->
        CASE k = "PlayerCharacterMesh" ->
                 <<"PlayerSkinTexture", "PlayerClothesTexture", "PlayerMaterial">>
          [] k = "MainMenuBackground" -> <<"UIShader">>
          [] k = "WeaponSwordMaterial" ->
                 <<"SwordDiffuseTexture", "SwordNormalTexture", "SwordRoughnessTexture",
                   "DefaultLitShader">>
          [] k = "ExplosionParticles" ->
                 <<"ExplosionTexture", "ParticleShader", "ExplosionSound">>]

\* handlers that take a second lock while they hold the first: the preview
\* handler the dependencies, the dependencies handler the assets
handler_locks_nested(kind) ==
    CASE kind = "get_assets" -> <<"assets">>
      [] kind = "get_preview_http" -> <<"assets", "dependencies">>
      [] kind = "get_dependencies_http" -> <<"dependencies", "assets">>
      [] OTHER -> <<>>

\* the `state.<field>.lock().await` calls of a handler, in the order it makes them
handler_locks(kind) ==
    CASE kind = "get_assets" -> <<"assets">>
      [] kind = "get_preview_http" -> <<"assets">>
      [] kind = "get_dependencies_http" -> <<"dependencies">>
      [] OTHER -> <<>>

\* the field of AppState the body of a handler reads through its guard
handler_reads(kind) ==
    CASE kind = "get_assets" -> {"assets"}
      [] kind = "get_preview_http" -> {"assets"}
      [] kind = "get_dependencies_http" -> {"dependencies"}
      [] OTHER -> {}

\* what a request carries: the `type` parameter of GET /assets ("" when it
\* has none; requests with a `search` parameter are not drawn), the
\* asset_name of GET /preview/:asset_name
RequestParams(kind) ==
    CASE kind = "get_assets" -> {"", "mesh"}
      [] kind = "get_preview_http" -> {"PlayerCharacterMesh", "NoSuchAsset"}
      [] OTHER -> {""}

\* every lock() of the handler has returned its guard
GuardsHeld(t) == Len(tasks[t].held) = Len(handler_locks(tasks[t].kind))

\* axum hands a request to a new task
Accept(t, kind, param) ==
    /\ tasks[t] = NoTask
    /\ tasks' = [tasks EXCEPT ![t] = [kind |-> kind, param |-> param, pc |-> "start",
                                      held |-> <<>>, response |-> <<>>]]
    /\ UNCHANGED <<dependencies, call, pc, keys_left, dfs, mutex>>

\* state.<field>.lock().await returns the guard: the task waits until the
\* Mutex is free
Lock(t) ==
    /\ tasks[t].pc = "start"
    /\ ~GuardsHeld(t)
    /\ LET l == handler_locks(tasks[t].kind)[Len(tasks[t].held) + 1]
       IN /\ mutex[l] = NoOwner
          /\ mutex' = [mutex EXCEPT ![l] = t]
          /\ tasks' = [tasks EXCEPT ![t].held = Append(@, l)]
    /\ UNCHANGED <<dependencies, call, pc, keys_left, dfs>>

\* the body of the handler up to its return, or up to the await of
\* generate_preview_data
Body(t) ==
    /\ tasks[t].pc = "start"
    /\ GuardsHeld(t)
    /\ LET kind == tasks[t].kind
           assets == create_mock_assets
           filtered_assets ==
               IF tasks[t].param = "" THEN assets
               ELSE SelectSeq(assets, LAMBDA asset : asset.asset_type = tasks[t].param)
       IN tasks' = [tasks EXCEPT ![t] =
              CASE kind = "get_assets" ->
                       [@ EXCEPT !.pc = "return",
                                 !.response = <<"Ok", [assets |-> filtered_assets,
                                                       total |-> Len(assets),
                                                       filtered |-> Len(filtered_assets)]>>]
                [] kind = "get_preview_http" ->
                       IF \E i \in 1..Len(assets) : assets[i].name = tasks[t].param
                       THEN [@ EXCEPT !.pc = "await"]
                       ELSE [@ EXCEPT !.pc = "return", !.response = <<"Err", "NOT_FOUND">>]
                [] kind = "get_dependencies_http" ->
                       [@ EXCEPT !.pc = "return",
                                 !.response = <<"Ok", [dependencies |-> dependencies]>>]
                [] OTHER ->
                       [@ EXCEPT !.pc = "return", !.response = <<"Ok", "healthy">>]]
    /\ UNCHANGED <<dependencies, call, pc, keys_left, dfs, mutex>>

\* generate_preview_data(asset).await completes; the guard was held across it
Resume(t) ==
    /\ tasks[t].pc = "await"
    /\ tasks' = [tasks EXCEPT ![t].pc = "return",
                              ![t].response = <<"Ok", [preview_of |-> tasks[t].param]>>]
    /\ UNCHANGED <<dependencies, call, pc, keys_left, dfs, mutex>>

\* the handler returns: its guards are dropped
Return(t) ==
    /\ tasks[t].pc = "return"
    /\ mutex' = [l \in Locks |-> IF mutex[l] = t THEN NoOwner ELSE mutex[l]]
    /\ tasks' = [tasks EXCEPT ![t].pc = "done", ![t].held = <<>>]
    /\ UNCHANGED <<dependencies, call, pc, keys_left, dfs>>

\* the response is sent, the task ends
Close(t) ==
    /\ tasks[t].pc = "done"
    /\ tasks' = [tasks EXCEPT ![t] = NoTask]
    /\ UNCHANGED <<dependencies, call, pc, keys_left, dfs, mutex>>

\* start_api_server: AppState over the mock data, no request yet
InitService ==
    /\ dependencies = create_mock_dependencies
    /\ call = NoCall
    /\ pc = "idle"
    /\ keys_left = {}
    /\ dfs = NoDfs
    /\ mutex = [l \in Locks |-> NoOwner]
    /\ tasks = [t \in TaskIds |-> NoTask]

NextService ==
    \/ \E t \in TaskIds, kind \in HandlerKinds :
          \E param \in RequestParams(kind) : Accept(t, kind, param)
    \/ \E t \in TaskIds : Lock(t)
    \/ \E t \in TaskIds : Body(t)
    \/ \E t \in TaskIds : Resume(t)
    \/ \E t \in TaskIds : Return(t)
    \/ \E t \in TaskIds : Close(t)

SpecService == InitService /\ [][NextService]_vars

Next ==
    \/ \E a, d \in Assets : Room(MaxApiEdges) /\ AddDependency(a, d)
    \/ \E a, d \in Assets : RemoveDependency(a, d)
    \/ Optimize
    \/ \E a \in Assets : GetAllDependencies(a)
    \/ \E a \in Assets, m \in 0..MaxDepth : BuildDependencyTree(a, m)
    \/ \E order \in Perms(DOMAIN dependencies) : DetectCircularDependencies(order)
    \/ \E all_assets \in Rosters : GenerateStatistics(all_assets)
    \/ Drop

Spec == Init /\ [][Next]_vars

(***************************************************************************)
(* One traversal at a time, on the stores add_dependency builds            *)
(***************************************************************************)
NextClosure ==
    \/ \E a, d \in Assets : Room(MaxEdges) /\ AddDependency(a, d)
    \/ \E a \in Assets : GetAllDependencies(a)
    \/ Drop

SpecClosure == Init /\ [][NextClosure]_vars

NextTree ==
    \/ \E a, d \in Assets : Room(MaxEdges) /\ AddDependency(a, d)
    \/ \E a \in Assets, m \in 0..MaxDepth : BuildDependencyTree(a, m)
    \/ Drop

SpecTree == Init /\ [][NextTree]_vars

(***************************************************************************)
(* The edge API and the optimizer, on stores built by calls or written as  *)
(* struct literals                                                         *)
(***************************************************************************)
NextEdges ==
    \/ \E a, d \in Assets : Room(MaxApiEdges) /\ AddDependency(a, d)
    \/ \E a \in Assets : GetDependencies(a)
    \/ \E a \in Assets, order \in Perms(DOMAIN dependencies) : GetReverseDependencies(a, order)
    \/ Drop

SpecEdges == Init /\ [][NextEdges]_vars

NextStore ==
    \/ Idle /\ dependencies = EmptyMap /\ \E store \in Literals : StructLiteral(store)
    \/ \E a, d \in Assets : Room(MaxApiEdges) /\ AddDependency(a, d)
    \/ \E a, d \in Assets : RemoveDependency(a, d)
    \/ Optimize
    \/ Drop

SpecStore == Init /\ [][NextStore]_vars

(***************************************************************************)
(* Merging stores                                                          *)
(***************************************************************************)
\* no map, one map, or two
MergeArguments ==
    {<<>>} \cup {<<m>> : m \in Literals} \cup (Literals \X Literals)

NextMerge ==
    \/ Idle /\ \E maps \in MergeArguments : MergeDependencyMaps(maps)
    \/ Drop

SpecMerge == Init /\ [][NextMerge]_vars

(***************************************************************************)
(* The reports, on stores built by calls or written as struct literals     *)
(***************************************************************************)
NextReport ==
    \/ Idle /\ dependencies = EmptyMap /\ \E store \in Literals : StructLiteral(store)
    \/ \E a, d \in Assets : Room(MaxStatEdges) /\ AddDependency(a, d)
    \/ Optimize
    \/ Idle /\ \E order \in Perms(DOMAIN dependencies) : ExportToCsv(order)
    \/ Idle /\ \E order \in Perms(DOMAIN dependencies) : Validate(order)
    \/ Idle /\ \E all_assets \in StatRosters : GenerateStatistics(all_assets)
    \/ Drop

SpecReport == Init /\ [][NextReport]_vars

NextExport ==
    \/ Idle /\ dependencies = EmptyMap /\ \E store \in Literals : StructLiteral(store)
    \/ \E a \in LiteralNames, d \in Assets : Room(MaxStatEdges) /\ AddDependency(a, d)
    \/ \E format \in FormatNames : ExportToFormat(format)
    \/ Drop

SpecExport == Init /\ [][NextExport]_vars

NextFilter ==
    \/ Idle /\ dependencies = EmptyMap /\ \E store \in FilterLiterals : StructLiteral(store)
    \/ \E a, d \in FilterNames : Room(MaxStatEdges) /\ AddDependency(a, d)
    \/ Idle /\ \E asset_types \in AssetTypes : FilterByAssetType(asset_types)
    \/ Drop

SpecFilter == Init /\ [][NextFilter]_vars

\* every operation that takes &self, on the stores add_dependency builds
\* under the keys of LiteralNames
NextReads ==
    \/ \E a \in LiteralNames, d \in Assets : Room(MaxStatEdges) /\ AddDependency(a, d)
    \/ \E a \in Assets : GetDependencies(a)
    \/ \E a \in Assets, order \in Perms(DOMAIN dependencies) : GetReverseDependencies(a, order)
    \/ \E a \in Assets : GetAllDependencies(a)
    \/ \E a \in Assets, m \in 0..MaxDepth : BuildDependencyTree(a, m)
    \/ Idle /\ \E order \in Perms(DOMAIN dependencies) : DetectCircularDependencies(order)
    \/ Idle /\ \E all_assets \in Rosters : FindOrphanedAssets(all_assets)
    \/ Idle /\ \E limit \in 0..MaxLimit, ref_order \in Perms(Referenced(dependencies)) :
                  GetMostReferencedAssets(limit, ref_order)
    \/ Idle /\ \E all_assets \in Rosters : GenerateStatistics(all_assets)
    \/ Idle /\ \E a \in Assets, all_assets \in Rosters : AnalyzeAssetDependencies(a, all_assets)
    \/ Idle /\ \E order \in Perms(DOMAIN dependencies) : Validate(order)
    \/ \E format \in FormatNames : ExportToFormat(format)
    \/ Drop

SpecReads == Init /\ [][NextReads]_vars

NextDepth ==
    \/ \E a, d \in Assets : Room(MaxApiEdges) /\ AddDependency(a, d)
    \/ \E a \in Assets : CalculateMaxDepth(a)
    \/ Drop

SpecDepth == Init /\ [][NextDepth]_vars

NextReferences ==
    \/ \E a, d \in Assets : Room(MaxApiEdges) /\ AddDependency(a, d)
    \/ Idle /\ \E limit \in 0..MaxLimit, ref_order \in Perms(Referenced(dependencies)) :
                  GetMostReferencedAssets(limit, ref_order)
    \/ Drop

SpecReferences == Init /\ [][NextReferences]_vars

NextOrphans ==
    \/ \E a, d \in Assets : Room(MaxStatEdges) /\ AddDependency(a, d)
    \/ Idle /\ \E all_assets \in OrphanRosters : FindOrphanedAssets(all_assets)
    \/ Drop

SpecOrphans == Init /\ [][NextOrphans]_vars

(***************************************************************************)
(* detect_circular_dependencies one step at a time                         *)
(***************************************************************************)
DfsBegin ==
    /\ Idle
    /\ pc' = "dfs"
    /\ dfs' = NoDfs
    /\ keys_left' = DOMAIN dependencies
    /\ UNCHANGED <<dependencies, call, mutex, tasks>>

\* the keys() loop yields its next key, in whatever order the map holds them
DfsNextKey(asset) ==
    /\ pc = "dfs"
    /\ dfs.path = <<>>
    /\ ~dfs.panicked
    /\ asset \in keys_left
    /\ keys_left' = keys_left \ {asset}
    /\ dfs' = IF asset \notin dfs.visited THEN DfsEnter(dfs, asset) ELSE dfs
    /\ UNCHANGED <<dependencies, call, pc, mutex, tasks>>

DfsStep ==
    /\ pc = "dfs"
    /\ dfs.path /= <<>>
    /\ ~dfs.panicked
    /\ Len(dfs.path) <= StackBound
    /\ dfs' = detect_cycles_dfs(dependencies, dfs)
    /\ UNCHANGED <<dependencies, call, pc, keys_left, mutex, tasks>>

DfsEnd ==
    /\ pc = "dfs"
    /\ (dfs.path = <<>> /\ keys_left = {}) \/ dfs.panicked
    /\ call' = [op |-> "detect_circular_dependencies",
                ret |-> [value |-> dfs.circular_refs, panicked |-> dfs.panicked,
                         diverged |-> FALSE]]
    /\ pc' = "idle"
    /\ dfs' = NoDfs
    /\ keys_left' = {}
    /\ UNCHANGED <<dependencies, mutex, tasks>>

NextDfs ==
    \/ \E a, d \in Assets : Room(MaxDfsEdges) /\ AddDependency(a, d)
    \/ DfsBegin
    \/ \E a \in Assets : DfsNextKey(a)
    \/ DfsStep
    \/ DfsEnd
    \/ Drop

SpecDfs == Init /\ [][NextDfs]_vars

(***************************************************************************)
(* Graph notions the properties are stated with                            *)
(***************************************************************************)
\* the direct dependencies of x, as a set
Succ(store, x) == IF x \in DOMAIN store THEN Elems(store[x]) ELSE {}

\* S closed under following edges
RECURSIVE EdgeClosure(_, _)
EdgeClosure(store, S) ==
    LET more == S \cup UNION {Succ(store, x) : x \in S}
    IN IF more = S THEN S ELSE EdgeClosure(store, more)

\* the assets reached from a by one or more edges
Reachable(store, a) == EdgeClosure(store, Succ(store, a))

OnCycle(store, a) == a \in Reachable(store, a)

HasCycle(store) == \E a \in DOMAIN store : OnCycle(store, a)

Dangling(store) == Referenced(store) \ DOMAIN store

HasDuplicateEdge(store) ==
    \E k \in DOMAIN store : Cardinality(Elems(store[k])) < Len(store[k])

NoDuplicates(s) == \A i, j \in 1..Len(s) : s[i] = s[j] => i = j

(***************************************************************************)
(* C1. get_all_dependencies(a) returns Ok with a list without duplicates   *)
(* whose elements are exactly the assets reachable from a by one or more   *)
(* edges: dangling targets are in it, and a itself is in it if and only if *)
(* a lies on a cycle.                                                      *)
(***************************************************************************)
C1_ClosureIsReachableSet ==
    call.op = "get_all_dependencies" =>
        /\ call.ret.ok
        /\ ~call.ret.diverged
        /\ NoDuplicates(call.ret.value)
        /\ Elems(call.ret.value) = Reachable(dependencies, call.asset)
        /\ Contains(call.ret.value, call.asset) <=> OnCycle(dependencies, call.asset)
        /\ \A d \in Dangling(dependencies) :
              d \in Reachable(dependencies, call.asset) => Contains(call.ret.value, d)

\* the closure of a root on a cycle, in a store with a duplicate edge, that
\* takes in a dangling target
C1_Witness ==
    /\ call.op = "get_all_dependencies"
    /\ OnCycle(dependencies, call.asset)
    /\ HasDuplicateEdge(dependencies)
    /\ \E d \in Dangling(dependencies) : Contains(call.ret.value, d)
    /\ Contains(call.ret.value, call.asset)

(***************************************************************************)
(* C2. The list get_all_dependencies(a) returns is in depth-first          *)
(* first-discovery order: the order in which a depth-first traversal from  *)
(* a, taking each dependency list in stored order and expanding each asset *)
(* at most once, first meets each asset as an edge target.                 *)
(***************************************************************************)
\* The reference traversal, with an explicit worklist: `work` holds the edge
\* targets still to be met, the next one first; a target met for the first
\* time is expanded by putting its list in front.  The log is every target in
\* the order met.
RECURSIVE RefEncounterLog(_, _, _, _)
RefEncounterLog(store, work, expanded, log) ==
    IF work = <<>> THEN log
    ELSE LET t == Head(work)
         IN IF t \in expanded
            THEN RefEncounterLog(store, Tail(work), expanded, Append(log, t))
            ELSE RefEncounterLog(store, get_dependencies(store, t) \o Tail(work),
                                 expanded \cup {t}, Append(log, t))

\* the first occurrence of each element, in order
RECURSIVE FirstOccurrences(_)
FirstOccurrences(s) ==
    IF s = <<>> THEN <<>>
    ELSE LET front == FirstOccurrences(SubSeq(s, 1, Len(s) - 1))
         IN IF Contains(front, s[Len(s)]) THEN front ELSE Append(front, s[Len(s)])

RefDiscoveryOrder(store, a) ==
    FirstOccurrences(RefEncounterLog(store, get_dependencies(store, a), {a}, <<>>))

C2_ClosureInDiscoveryOrder ==
    call.op = "get_all_dependencies" =>
        call.ret.value = RefDiscoveryOrder(dependencies, call.asset)

\* a closure whose depth-first order is neither the breadth-first nor the
\* sorted one: D, below B, comes before C
C2_Witness ==
    /\ call.op = "get_all_dependencies"
    /\ call.asset = "A"
    /\ dependencies = [k \in {"A", "B"} |-> IF k = "A" THEN <<"B", "C">> ELSE <<"D">>]
    /\ call.ret.value = <<"B", "D", "C">>

(***************************************************************************)
(* The nodes of a dependency tree                                          *)
(***************************************************************************)
\* Every node of the tree with its position: the child indices on the way
\* down from the root (<<>> for the root).
RECURSIVE TreeNodes(_, _)
TreeNodes(tree, pos) ==
    {[pos |-> pos, asset |-> tree.asset, depth |-> tree.depth,
      is_circular |-> tree.is_circular, children |-> Len(tree.dependencies)]}
    \cup UNION {TreeNodes(tree.dependencies[i], Append(pos, i)) :
                    i \in 1..Len(tree.dependencies)}

\* p is the position of a proper ancestor of the node at q
ProperPrefix(p, q) == Len(p) < Len(q) /\ SubSeq(q, 1, Len(p)) = p

IsTreeCall == call.op = "build_dependency_tree"

CallNodes == TreeNodes(call.ret, <<>>)

(***************************************************************************)
(* C6. In the tree of build_dependency_tree(a, max_depth) a node has       *)
(* is_circular = true if and only if its asset is the asset of one of its  *)
(* proper ancestors, also at depth = max_depth; a circular node is a leaf. *)
(***************************************************************************)
C6_CircularIffOnPath ==
    IsTreeCall =>
        LET nodes == CallNodes
        IN \A n \in nodes :
              /\ n.is_circular <=>
                     \E m \in nodes : ProperPrefix(m.pos, n.pos) /\ m.asset = n.asset
              /\ n.is_circular => n.children = 0

\* a node that closes a cycle exactly at the depth limit
C6_Witness ==
    /\ IsTreeCall
    /\ \E n \in CallNodes :
          /\ n.is_circular
          /\ n.depth = call.max_depth
          /\ n.asset \in DOMAIN dependencies

(***************************************************************************)
(* C7. In the tree of build_dependency_tree(a, max_depth) the root has     *)
(* depth 0, a child has its parent's depth plus 1, no node is deeper than  *)
(* max_depth, a node at depth max_depth has no children; with max_depth =  *)
(* 0 the tree is the single node {a, 0, [], false}.                        *)
(***************************************************************************)
C7_TreeDepths ==
    IsTreeCall =>
        /\ call.ret.asset = call.asset
        /\ call.ret.depth = 0
        /\ \A n \in CallNodes :
              /\ n.depth = Len(n.pos)
              /\ n.depth <= call.max_depth
              /\ n.depth = call.max_depth => n.children = 0
        /\ call.max_depth = 0 =>
              call.ret = [asset |-> call.asset, depth |-> 0, dependencies |-> <<>>,
                          is_circular |-> FALSE]

\* a tree cut by the depth limit: a node at depth max_depth >= 2 that is not
\* circular and whose asset has dependencies in the store
C7_Witness ==
    /\ IsTreeCall
    /\ call.max_depth >= 2
    /\ \E n \in CallNodes :
          /\ n.depth = call.max_depth
          /\ ~n.is_circular
          /\ n.asset \in DOMAIN dependencies

(***************************************************************************)
(* C8. The visited set of build_dependency_tree is path-local: in an       *)
(* acyclic store, with max_depth at least the length of the longest path   *)
(* from the root, the tree has one node for every path from the root (a    *)
(* path follows list entries, so an asset reached through k paths occurs k *)
(* times) and no node is circular; for {A:[B,C], B:[D], C:[D]} and         *)
(* max_depth >= 2 the tree from A holds D once under B and once under C.   *)
(***************************************************************************)
\* p, a sequence of list indices, is a path from a: each index picks an entry
\* of the list of the asset reached so far
RECURSIVE IsWalk(_, _, _)
IsWalk(store, a, p) ==
    IF p = <<>> THEN TRUE
    ELSE /\ a \in DOMAIN store
         /\ Head(p) \in 1..Len(store[a])
         /\ IsWalk(store, store[a][Head(p)], Tail(p))

\* the asset a walk ends at
RECURSIVE WalkEnd(_, _, _)
WalkEnd(store, a, p) ==
    IF p = <<>> THEN a ELSE WalkEnd(store, store[a][Head(p)], Tail(p))

\* the longest list of the store
LongestList(store) ==
    CHOOSE n \in 0..MaxEdges :
        /\ \A k \in DOMAIN store : Len(store[k]) <= n
        /\ n > 0 => \E k \in DOMAIN store : Len(store[k]) = n

\* a path of an acyclic store repeats no asset, so it has fewer edges than
\* there are identifiers
IndexPaths(store) ==
    UNION {[1..n -> 1..LongestList(store)] : n \in 0..(Cardinality(Assets) - 1)}

Walks(store, a) == {p \in IndexPaths(store) : IsWalk(store, a, p)}

\* the length of the longest of a set of walks
LongestWalk(walks) ==
    CHOOSE n \in 0..Cardinality(Assets) :
        /\ \E p \in walks : Len(p) = n
        /\ \A p \in walks : Len(p) <= n

Diamond ==
    [k \in {"A", "B", "C"} |->
        IF k = "A" THEN <<"B", "C">> ELSE <<"D">>]

C8_TreeUnfoldsEveryPath ==
    IsTreeCall =>
        LET nodes == CallNodes
            walks == Walks(dependencies, call.asset)
        IN
        /\ (~HasCycle(dependencies) /\ call.max_depth >= LongestWalk(walks)) =>
              /\ {n.pos : n \in nodes} = walks
              /\ \A n \in nodes :
                    /\ n.asset = WalkEnd(dependencies, call.asset, n.pos)
                    /\ ~n.is_circular
        /\ (dependencies = Diamond /\ call.asset = "A" /\ call.max_depth >= 2) =>
              /\ {n.pos : n \in {m \in nodes : m.asset = "D"}} = {<<1, 1>>, <<2, 1>>}
              /\ \A n \in nodes : ~n.is_circular
              /\ call.ret.dependencies[1].asset = "B"
              /\ call.ret.dependencies[2].asset = "C"

\* the tree of the diamond from A
C8_Witness ==
    /\ IsTreeCall
    /\ dependencies = Diamond
    /\ call.asset = "A"
    /\ call.max_depth >= 2
    /\ Cardinality({n \in CallNodes : n.asset = "D"}) = 2

(***************************************************************************)
(* Cycle detection, as it runs                                             *)
(***************************************************************************)
\* a directed edge of the store
IsEdge(store, x, y) == x \in DOMAIN store /\ Contains(store[x], y)

\* c is a cycle of the store: not empty, every consecutive pair and the pair
\* (last, first) an edge
IsCycle(store, c) ==
    /\ c /= <<>>
    /\ \A i \in 1..(Len(c) - 1) : IsEdge(store, c[i], c[i + 1])
    /\ IsEdge(store, c[Len(c)], c[1])

\* the cycles reported so far by the running call, or returned by the last one
ReportedCycles ==
    IF pc = "dfs" THEN dfs.circular_refs
    ELSE IF call.op = "detect_circular_dependencies" THEN call.ret.value
    ELSE <<>>

Ring == [k \in {"A", "B", "C"} |->
            IF k = "A" THEN <<"B">> ELSE IF k = "B" THEN <<"C">> ELSE <<"A">>]

RingRotations == {<<"A", "B", "C">>, <<"B", "C", "A">>, <<"C", "A", "B">>}

(***************************************************************************)
(* C3. detect_circular_dependencies() returns a non-empty list if and only *)
(* if the store holds a directed cycle (a self-loop is one), in whatever   *)
(* order the keys are iterated; for {A:[B], B:[C], C:[A]} it returns a     *)
(* cycle with the elements A, B, C in consecutive-edge order.              *)
(***************************************************************************)
C3_DetectsIffCyclic ==
    call.op = "detect_circular_dependencies" =>
        /\ ~call.ret.panicked
        /\ call.ret.value /= <<>> <=> HasCycle(dependencies)
        /\ dependencies = Ring =>
              \E i \in 1..Len(call.ret.value) : call.ret.value[i] \in RingRotations

\* the ring, its keys iterated from B
C3_Witness ==
    /\ call.op = "detect_circular_dependencies"
    /\ dependencies = Ring
    /\ call.ret.value = << <<"B", "C", "A">> >>

(***************************************************************************)
(* C4. Every entry detect_circular_dependencies() reports is a cycle of    *)
(* the store (not empty, each consecutive pair and the pair (last, first)  *)
(* an edge), and it is the suffix of the DFS path from the back-edge       *)
(* target through the node being explored.                                 *)
(***************************************************************************)
C4_EntriesAreCycles ==
    \A i \in 1..Len(ReportedCycles) : IsCycle(dependencies, ReportedCycles[i])

C4_ReportIsPathSuffix ==
    (pc = "dfs" /\ pc' = "dfs" /\ dfs'.circular_refs /= dfs.circular_refs) =>
        LET n == Len(dfs.path)
            asset == dfs.path[n]
            dep == dependencies[asset][dfs.idx[n]]
            cycle == dfs'.circular_refs[Len(dfs'.circular_refs)]
        IN /\ dfs'.circular_refs = Append(dfs.circular_refs, cycle)
           /\ dep \in dfs.recursion_stack
           /\ cycle[1] = dep
           /\ cycle[Len(cycle)] = asset
           /\ \E k \in 1..n : cycle = SubSeq(dfs.path, k, n)

C4_ReportedCyclesAreReal ==
    [](C4_EntriesAreCycles) /\ [][C4_ReportIsPathSuffix]_vars

\* a cycle reported below the root of the search: the suffix is not the path
C4_Witness ==
    /\ pc = "dfs"
    /\ dfs.circular_refs /= <<>>
    /\ Len(dfs.path) >= 3
    /\ Len(dfs.circular_refs[1]) = 2
    /\ dfs.circular_refs[1] = SubSeq(dfs.path, 2, 3)

(***************************************************************************)
(* C5. In one call of detect_circular_dependencies() every back-edge found *)
(* (an edge (u, v) from the node being explored to a node on the active    *)
(* recursion stack) is reported once.                                      *)
(***************************************************************************)
\* how many of the entries of the list of path[k] looked at so far target v
Examined(k, v) ==
    LET asset == dfs.path[k]
        deps == get_dependencies(dependencies, asset)
    IN Cardinality({j \in 1..(dfs.idx[k] - 1) : j <= Len(deps) /\ deps[j] = v})

\* how many reported entries run from v to path[k] along the path
ReportedFor(k, v) ==
    CountIn(dfs.circular_refs, SubSeq(dfs.path, Position(dfs.path, v), k))

\* As claimed: each pair (u, v) found as a back-edge gives exactly one entry,
\* also when the store holds duplicate edges.
C5_OneEntryPerPair ==
    pc = "dfs" =>
        \A k \in 1..Len(dfs.path) : \A v \in Elems(SubSeq(dfs.path, 1, k)) :
            ReportedFor(k, v) = IF Examined(k, v) > 0 THEN 1 ELSE 0

\* As amended: each list entry found as a back-edge gives exactly one entry,
\* so a pair (u, v) that u's list holds k times gives k entries; none is
\* omitted, none is reported more often than the list holds it.
C5_OneEntryPerBackEdge ==
    pc = "dfs" =>
        \A k \in 1..Len(dfs.path) : \A v \in Elems(SubSeq(dfs.path, 1, k)) :
            ReportedFor(k, v) = Examined(k, v)

\* a back-edge the list holds twice, reported twice: B's list holds A twice
C5_Witness ==
    /\ pc = "dfs"
    /\ dependencies = [k \in {"A", "B"} |-> IF k = "A" THEN <<"B">> ELSE <<"A", "A">>]
    /\ dfs.path = <<"A", "B">>
    /\ dfs.circular_refs = << <<"A", "B">>, <<"A", "B">> >>

(***************************************************************************)
(* C9. On every store, with cycles, self-loops, dangling targets and       *)
(* duplicate edges, get_all_dependencies, build_dependency_tree,           *)
(* detect_circular_dependencies and generate_statistics return a result:   *)
(* no call fails, panics or runs on without end.                           *)
(***************************************************************************)
C9_TraversalsReturn ==
    /\ call.op = "get_all_dependencies" => call.ret.ok /\ ~call.ret.diverged
    /\ call.op = "build_dependency_tree" =>
          \A n \in CallNodes : n.depth <= call.max_depth
    /\ call.op = "detect_circular_dependencies" =>
          ~call.ret.panicked /\ ~call.ret.diverged
    /\ call.op = "generate_statistics" =>
          ~call.ret.panicked /\ ~call.ret.diverged

\* statistics of a cyclic store over a roster that names an asset of a cycle
C9_Witness ==
    /\ call.op = "generate_statistics"
    /\ \E i \in 1..Len(call.all_assets) : OnCycle(dependencies, call.all_assets[i])
    /\ Dangling(dependencies) /= {}
    /\ call.ret.circular_references /= <<>>
    /\ call.ret.max_depth >= 1

(***************************************************************************)
(* C10. In every store reached from DependencyMap::new() by add_dependency,*)
(* remove_dependency and optimize calls no key maps to an empty list, so   *)
(* validate() emits no 'has empty dependency list' diagnostic.             *)
(***************************************************************************)
C10_NoEmptyList ==
    /\ \A k \in DOMAIN dependencies : dependencies[k] /= <<>>
    /\ \A order \in Perms(DOMAIN dependencies) :
          validate_empty_lists(dependencies, order) = <<>>

\* a removal that took the last entry of a list, other keys remaining
C10_Witness ==
    /\ call.op = "remove_dependency"
    /\ call.asset \notin DOMAIN dependencies
    /\ dependencies /= EmptyMap
    /\ \E k \in DOMAIN dependencies : Contains(dependencies[k], call.dependency)

(***************************************************************************)
(* Lists and stores, as the properties below speak of them                 *)
(***************************************************************************)
\* the i-th smallest of a set of positions
NthOf(P, i) == CHOOSE j \in P : Cardinality({k \in P : k < j}) = i - 1

\* the entries of s at the positions P, in the order of s
Subsequence(s, P) == [i \in 1..Cardinality(P) |-> s[NthOf(P, i)]]

\* every list entry of a store, as <<key, index>>
EntryPositions(store) ==
    UNION {{<<k, i>> : i \in 1..Len(store[k])} : k \in DOMAIN store}

\* the number of list entries, duplicates counted
EdgeCount(store) == Cardinality(EntryPositions(store))

\* the (asset, dependency) pairs of a store
EdgeSet(store) == {<<p[1], store[p[1]][p[2]]>> : p \in EntryPositions(store)}

\* how often x is a list entry of the store
Occurrences(store, x) ==
    Cardinality({p \in EntryPositions(store) : store[p[1]][p[2]] = x})

\* ascending in the order of String, no entry twice
StrictlyAscending(s) == \A i \in 1..(Len(s) - 1) : Rank(s[i]) < Rank(s[i + 1])

\* every list sorted without duplicates, none empty
Normalized(store) ==
    \A k \in DOMAIN store : store[k] /= <<>> /\ StrictlyAscending(store[k])

(***************************************************************************)
(* C11. remove_dependency(A, B) removes all occurrences of B from A's      *)
(* list: afterwards B is not in get_dependencies(A), the remaining entries *)
(* keep their relative order, the key A is gone if its list became empty,  *)
(* every other key and its list is unchanged; when A is not a key the      *)
(* store is unchanged.                                                     *)
(***************************************************************************)
C11_RemoveTakesAllOccurrences ==
    call.op = "remove_dependency" =>
        LET before == call.before
            a == call.asset
            d == call.dependency
        IN IF a \notin DOMAIN before THEN dependencies = before
           ELSE LET kept == {j \in 1..Len(before[a]) : before[a][j] /= d}
                IN /\ ~Contains(get_dependencies(dependencies, a), d)
                   /\ get_dependencies(dependencies, a) = Subsequence(before[a], kept)
                   /\ a \in DOMAIN dependencies <=> kept /= {}
                   /\ (DOMAIN dependencies) \ {a} = (DOMAIN before) \ {a}
                   /\ \A k \in (DOMAIN before) \ {a} : dependencies[k] = before[k]

\* a removal of a dependency the list held twice, around an entry that stays
C11_Witness ==
    /\ call.op = "remove_dependency"
    /\ call.asset \in DOMAIN call.before
    /\ CountIn(call.before[call.asset], call.dependency) = 2
    /\ Len(call.before[call.asset]) = 3
    /\ call.before[call.asset][2] /= call.dependency
    /\ call.asset \in DOMAIN dependencies

(***************************************************************************)
(* C12. Edge round-trip: immediately after add_dependency(A, B), B is an   *)
(* element of get_dependencies(A) and A is an element of                   *)
(* get_reverse_dependencies(B), also when A = B.                           *)
(***************************************************************************)
C12_EdgeRoundTrip ==
    /\ (call.op = "get_dependencies" /\ call.prev.op = "add_dependency"
            /\ call.asset = call.prev.asset) =>
          Contains(call.ret, call.prev.dependency)
    /\ (call.op = "get_reverse_dependencies" /\ call.prev.op = "add_dependency"
            /\ call.asset = call.prev.dependency) =>
          Contains(call.ret, call.prev.asset)

\* the reverse lookup of an asset that has just been made its own
\* dependency, other assets depending on it as well
C12_Witness ==
    /\ call.op = "get_reverse_dependencies"
    /\ call.prev.op = "add_dependency"
    /\ call.prev.asset = call.prev.dependency
    /\ call.asset = call.prev.asset
    /\ Contains(call.ret, call.asset)
    /\ Len(call.ret) >= 2

(***************************************************************************)
(* C13. optimize() is idempotent: a second optimize() call made directly   *)
(* after a first one leaves the store as the first call left it (same      *)
(* keys, same lists in the same order) and returns 0.                      *)
(***************************************************************************)
C13_OptimizeIdempotent ==
    (call.op = "optimize" /\ call.prev.op = "optimize") =>
        /\ dependencies = call.before
        /\ call.ret = 0

\* a second call after a first one that removed entries and reordered a list
C13_Witness ==
    /\ call.op = "optimize"
    /\ call.prev.op = "optimize"
    /\ call.prev.ret > 0
    /\ \E k \in DOMAIN call.prev.before :
          /\ ~StrictlyAscending(DedupVec(call.prev.before[k]))
    /\ call.ret = 0

(***************************************************************************)
(* C14. After optimize() every dependency list of the store is sorted in   *)
(* ascending order with no duplicate entries and no key maps to an empty   *)
(* list, and the value returned is the number of list entries removed: the *)
(* sum of the list lengths before the call minus the sum after it.         *)
(***************************************************************************)
C14_OptimizeNormalizes ==
    call.op = "optimize" =>
        /\ \A k \in DOMAIN dependencies :
              /\ dependencies[k] /= <<>>
              /\ StrictlyAscending(dependencies[k])
        /\ call.ret = EdgeCount(call.before) - EdgeCount(dependencies)

\* a call on a store with an empty list, a duplicate entry and a list out of
\* order
C14_Witness ==
    /\ call.op = "optimize"
    /\ \E k \in DOMAIN call.before : call.before[k] = <<>>
    /\ \E k \in DOMAIN call.before :
          Len(call.before[k]) >= 2 /\ Rank(call.before[k][1]) > Rank(call.before[k][2])
    /\ call.ret > 0
    /\ dependencies /= EmptyMap

(***************************************************************************)
(* C15. merge_dependency_maps(stores) returns a fresh store that is always *)
(* normalized, even if the inputs were not: its set of (asset, dependency) *)
(* edges is the union of the edge sets of the input stores, each list is   *)
(* sorted without duplicates, no key has an empty list; merging            *)
(* [{A:[B]}, {A:[B]}] yields the single edge A:[B].                        *)
(***************************************************************************)
OneEdge == [k \in {"A"} |-> <<"B">>]

C15_MergeIsNormalizedUnion ==
    call.op = "merge_dependency_maps" =>
        /\ EdgeSet(call.ret) = UNION {EdgeSet(call.maps[m]) : m \in 1..Len(call.maps)}
        /\ Normalized(call.ret)
        /\ call.maps = <<OneEdge, OneEdge>> => call.ret = OneEdge

\* a merge of two stores that share an edge, one of them with an empty list,
\* one with a list out of order that holds an entry twice
C15_Witness ==
    /\ call.op = "merge_dependency_maps"
    /\ Len(call.maps) = 2
    /\ EdgeSet(call.maps[1]) \cap EdgeSet(call.maps[2]) /= {}
    /\ \E m \in 1..2 : \E k \in DOMAIN call.maps[m] : call.maps[m][k] = <<>>
    /\ \E m \in 1..2 : \E k \in DOMAIN call.maps[m] :
          /\ Len(call.maps[m][k]) = 2
          /\ Rank(call.maps[m][k][1]) > Rank(call.maps[m][k][2])
    /\ \E m \in 1..2 : HasDuplicateEdge(call.maps[m])
    /\ Cardinality(DOMAIN call.ret) = 2

TwoOnB ==
    [k \in {"A", "D"} |-> IF k = "A" THEN <<"B", "C">> ELSE <<"B">>]

C17_MostReferencedByCount ==
    call.op = "get_most_referenced_assets" =>
        LET r == call.ret
            targets == {e[2] : e \in EdgeSet(dependencies)}
            returned == {r[i][1] : i \in 1..Len(r)}
        IN /\ \A i \in 1..Len(r) :
                 /\ r[i][1] \in targets
                 /\ r[i][2] = Occurrences(dependencies, r[i][1])
           /\ \A i, j \in 1..Len(r) : i < j => r[i][2] >= r[j][2]
           /\ Len(r) = IF call.limit < Cardinality(targets)
                       THEN call.limit ELSE Cardinality(targets)
           /\ Cardinality(returned) = Len(r)
           /\ \A x \in targets \ returned : \A i \in 1..Len(r) :
                 Occurrences(dependencies, x) <= r[i][2]
           /\ (dependencies = TwoOnB /\ call.limit = 2) => r[1] = <<"B", 2>>

\* the two most referenced of {A:[B,C], D:[B]}
C17_Witness ==
    /\ call.op = "get_most_referenced_assets"
    /\ dependencies = TwoOnB
    /\ call.limit = 2
    /\ call.ret = << <<"B", 2>>, <<"C", 1>> >>

(***************************************************************************)
(* C18. The max_depth field of generate_statistics(roster) is the maximum  *)
(* of calculate_max_depth(name) over the names of the roster and only over *)
(* them: assets of the store absent from the roster do not contribute, and *)
(* an empty roster gives max_depth = 0.                                    *)
(***************************************************************************)
\* the greatest of a non-empty set of numbers
MaxOf(S) == CHOOSE m \in S : \A x \in S : x <= m

DepthOf(a) == calculate_max_depth(dependencies, a).depth

C18_MaxDepthOverRoster ==
    call.op = "generate_statistics" =>
        LET roster == call.all_assets
        IN /\ call.ret.max_depth = MaxOf({0} \cup {DepthOf(a) : a \in Elems(roster)})
           /\ roster = <<>> => call.ret.max_depth = 0

\* a roster of two names, the deeper one first, on a store that has a deeper
\* asset the roster does not name
C18_Witness ==
    /\ call.op = "generate_statistics"
    /\ Len(call.all_assets) = 2
    /\ DepthOf(call.all_assets[1]) > DepthOf(call.all_assets[2])
    /\ \E k \in DOMAIN dependencies :
          k \notin Elems(call.all_assets) /\ DepthOf(k) > call.ret.max_depth
    /\ call.ret.max_depth = DepthOf(call.all_assets[1])

(***************************************************************************)
(* C19. The edge count is phase-sensitive: in every store state the        *)
(* total_dependencies of generate_statistics and the number of data rows   *)
(* of the csv export (after the header line 'Asset,Dependency') equal the  *)
(* sum of the lengths of all dependency lists, duplicates counted; so the  *)
(* count is that of the unnormalized store until optimize() is called and  *)
(* it drops by optimize()'s return value then.                             *)
(***************************************************************************)
\* the lines of a text: what stands before each line end, and what is left
\* after the last one
RECURSIVE SplitLines(_, _, _)
SplitLines(text, line, lines) ==
    IF text = <<>> THEN [lines |-> lines, rest |-> line]
    ELSE IF Head(text) = "\n" THEN SplitLines(Tail(text), <<>>, Append(lines, line))
    ELSE SplitLines(Tail(text), Append(line, Head(text)), lines)

C19_EdgeCountIsListLengthSum ==
    /\ call.op = "generate_statistics" =>
          call.ret.total_dependencies = EdgeCount(dependencies)
    /\ call.op = "export_to_csv" =>
          LET csv == SplitLines(call.ret, <<>>, <<>>)
              rows == Tail(csv.lines)
          IN /\ csv.rest = <<>>
             /\ Head(csv.lines) = <<"Asset", ",", "Dependency">>
             /\ Len(rows) = EdgeCount(dependencies)
             /\ \A e \in EdgeSet(dependencies) :
                   CountIn(rows, <<e[1], ",", e[2]>>)
                       = CountIn(dependencies[e[1]], e[2])
    /\ call.op = "optimize" =>
          EdgeCount(dependencies) = EdgeCount(call.before) - call.ret

\* the export of a store that holds an edge twice: a row for each
C19_Witness ==
    /\ call.op = "export_to_csv"
    /\ \E e \in EdgeSet(dependencies) :
          CountIn(SplitLines(call.ret, <<>>, <<>>).lines, <<e[1], ",", e[2]>>) = 2
    /\ Cardinality(DOMAIN dependencies) = 2

(***************************************************************************)
(* C20. validate() never fails and returns one self-reference diagnostic   *)
(* for each key that is in its own dependency list, one circular-          *)
(* dependency diagnostic (the assets joined by ' -> ') for each cycle      *)
(* detect_circular_dependencies() returns, one empty-list diagnostic for   *)
(* each key with an empty list, and nothing else; so on a store without    *)
(* empty lists validate() returns the empty list if and only if the store  *)
(* is acyclic.                                                             *)
(***************************************************************************)
SelfReferenceIssue(a) == <<"Self-reference detected: ", a, " depends on itself">>

EmptyListIssue(a) == <<"Asset", a, "has empty dependency list">>

IsCircularIssue(issue) == Head(issue) = "Circular dependency detected: "

\* the assets of a circular-dependency diagnostic: what stands between the
\* ' -> ' of its text
CycleOfIssue(issue) ==
    Subsequence(issue, {i \in 2..Len(issue) : i % 2 = 0})

C20_ValidateDiagnostics ==
    call.op = "validate" =>
        LET issues == call.ret.value
            keys == DOMAIN dependencies
            cycles == detect_circular_dependencies(dependencies, call.order).value
            circular == SelectSeq(issues, IsCircularIssue)
        IN /\ ~call.ret.panicked /\ ~call.ret.diverged
           /\ \A k \in keys :
                 /\ CountIn(issues, SelfReferenceIssue(k))
                        = IF Contains(dependencies[k], k) THEN 1 ELSE 0
                 /\ CountIn(issues, EmptyListIssue(k))
                        = IF dependencies[k] = <<>> THEN 1 ELSE 0
           /\ Len(circular) = Len(cycles)
           /\ \A i \in 1..Len(cycles) :
                 /\ CycleOfIssue(circular[i]) = cycles[i]
                 /\ \A j \in 1..Len(circular[i]) :
                       j > 1 /\ j % 2 = 1 => circular[i][j] = " -> "
           /\ \A i \in 1..Len(issues) :
                 \/ IsCircularIssue(issues[i])
                 \/ \E k \in keys : issues[i] \in {SelfReferenceIssue(k), EmptyListIssue(k)}
           /\ (\A k \in keys : dependencies[k] /= <<>>) =>
                 (issues = <<>> <=> ~HasCycle(dependencies))

\* a key that holds itself twice next to a key with an empty list: one
\* self-reference diagnostic, two circular-dependency diagnostics, one
\* empty-list diagnostic
C20_Witness ==
    /\ call.op = "validate"
    /\ \E k \in DOMAIN dependencies : Contains(call.ret.value, SelfReferenceIssue(k))
    /\ \E k \in DOMAIN dependencies : Contains(call.ret.value, EmptyListIssue(k))
    /\ Len(SelectSeq(call.ret.value, IsCircularIssue)) = 2
    /\ Len(call.ret.value) = 4

(***************************************************************************)
(* C21  export_to_format dispatches on the format name, ignoring case      *)
(***************************************************************************)
\* two characters that are equal, or the two cases of one letter
SameLetter(c, d) ==
    \/ c = d
    \/ \E k \in 1..Len(UpperCase) : {c, d} = {UpperCase[k], LowerCase[k]}

EqualsIgnoringCase(s, t) ==
    /\ Len(s) = Len(t)
    /\ \A i \in 1..Len(s) : SameLetter(s[i], t[i])

IsFormatCall == call /= NoCall /\ call.op = "export_to_format"

\* C21: a name equal, ignoring case, to json, dot or csv yields Ok with that
\* rendering of the store; a name equal, ignoring case, to yaml yields Ok
\* with the placeholder text; every other name yields the unsupported-format
\* error, which quotes the name as it was given; the store is as it was.
\* The rendering is the one of the store's entries in the order in which the
\* map yielded them.
C21_FormatDispatch ==
    IsFormatCall =>
        LET f == call.format
            order == call.order
            node_order == call.node_order
            rendering == \E name \in {<<"j", "s", "o", "n">>, <<"d", "o", "t">>,
                                       <<"c", "s", "v">>} : EqualsIgnoringCase(f, name)
        IN /\ dependencies = call.before
           /\ rendering => Elems(order) = DOMAIN dependencies /\ NoDuplicates(order)
           /\ IF EqualsIgnoringCase(f, <<"j", "s", "o", "n">>)
              THEN /\ call.ret.ok
                   /\ call.ret.value = export_to_json(dependencies, order)
              ELSE IF EqualsIgnoringCase(f, <<"d", "o", "t">>)
              THEN /\ call.ret.ok
                   /\ Elems(node_order) = (DOMAIN dependencies) \cup Referenced(dependencies)
                   /\ NoDuplicates(node_order)
                   /\ call.ret.value = export_to_dot(dependencies, node_order, order)
              ELSE IF EqualsIgnoringCase(f, <<"c", "s", "v">>)
              THEN /\ call.ret.ok
                   /\ call.ret.value = export_to_csv(dependencies, order)
              ELSE IF EqualsIgnoringCase(f, <<"y", "a", "m", "l">>)
              THEN /\ call.ret.ok
                   /\ call.ret.value = <<"YAML export not implemented yet">>
              ELSE /\ ~call.ret.ok
                   /\ call.ret.error = <<"Unsupported export format: ">> \o f

\* a mixed-case name of a rendering, an upper-case yaml and an unknown name
\* were each passed on a store that holds an edge
C21_Witness ==
    /\ IsFormatCall
    /\ dependencies /= EmptyMap
    /\ call.format = <<"c", "S", "v">>
    /\ call.ret.ok
    /\ Len(call.ret.value) > 4

C21_WitnessUnsupported ==
    /\ IsFormatCall
    /\ call.format = <<"X", "M", "L">>
    /\ ~call.ret.ok

(***************************************************************************)
(* C22  the dot export                                                     *)
(***************************************************************************)
DotNodeLine(x) == <<"    \"", x, "\";">>
DotEdgeLine(a, d) == <<"    \"", a, "\" -> \"", d, "\";">>

IsDotCall == IsFormatCall /\ EqualsIgnoringCase(call.format, <<"d", "o", "t">>)

\* C22: the dot export starts with the line 'digraph AssetDependencies {';
\* it declares as nodes exactly the keys and the list entries of the store,
\* each once, so a dependency that is not a key is declared too; and it
\* holds one edge statement per occurrence of a dependency in a list,
\* repeated occurrences included.  Nothing else is in it but the two
\* attribute lines, two empty lines and the closing brace.
C22_DotExport ==
    IsDotCall =>
        LET parsed == SplitLines(call.ret.value, <<>>, <<>>)
            lines == parsed.lines
            nodes == (DOMAIN dependencies)
                     \cup {d \in Assets : \E a \in DOMAIN dependencies :
                                              Contains(dependencies[a], d)}
        IN /\ parsed.rest = <<>>
           /\ lines[1] = <<"digraph AssetDependencies {">>
           /\ \A x \in Assets :
                 CountIn(lines, DotNodeLine(x)) = IF x \in nodes THEN 1 ELSE 0
           /\ \A a, d \in Assets :
                 CountIn(lines, DotEdgeLine(a, d)) =
                     IF a \in DOMAIN dependencies
                     THEN Cardinality({i \in 1..Len(dependencies[a]) : dependencies[a][i] = d})
                     ELSE 0
           /\ Len(lines) = Cardinality(nodes) + EdgeCount(dependencies) + 6
           /\ lines[Len(lines)] = <<"}">>

\* a dot export of a store that lists one dependency twice, the dependency
\* not being a key
C22_Witness ==
    /\ IsDotCall
    /\ \E a \in DOMAIN dependencies, d \in Assets \ DOMAIN dependencies :
          /\ CountIn(dependencies[a], d) = 2
          /\ CountIn(SplitLines(call.ret.value, <<>>, <<>>).lines, DotEdgeLine(a, d)) = 2
          /\ Contains(SplitLines(call.ret.value, <<>>, <<>>).lines, DotNodeLine(d))

(***************************************************************************)
(* C23  the filter by name                                                 *)
(***************************************************************************)
\* `name` holds, ignoring case, the characters of t in a row
HoldsIgnoringCase(name, t) ==
    \E offset \in 0..Len(Spelling(name)) :
        /\ offset + Len(t) <= Len(Spelling(name))
        /\ \A j \in 1..Len(t) : SameLetter(Spelling(name)[offset + j], t[j])

Selected(name, asset_types) ==
    \E i \in 1..Len(asset_types) : HoldsIgnoringCase(name, asset_types[i])

IsFilterCall == call /= NoCall /\ call.op = "filter_by_asset_type"

\* C23 as stated: the keys of the result are exactly the keys of the input
\* whose name contains, ignoring case, one of the substrings; each kept
\* list is the input's list; no substring gives the empty store; the input
\* is as it was.
C23_KeysAreSelectedKeys ==
    IsFilterCall =>
        /\ dependencies = call.before
        /\ DOMAIN call.ret = {k \in DOMAIN call.before : Selected(k, call.asset_types)}
        /\ \A k \in DOMAIN call.ret : call.ret[k] = call.before[k]
        /\ call.asset_types = <<>> => call.ret = EmptyMap

\* C23, amended: the keys of the result are exactly the keys of the input
\* whose name contains, ignoring case, one of the substrings and whose list
\* is not empty; each kept list is the input's list, entry for entry; no
\* substring gives the empty store; the input is as it was.
C23_EdgesOfSelectedKeys ==
    IsFilterCall =>
        /\ dependencies = call.before
        /\ DOMAIN call.ret = {k \in DOMAIN call.before :
                                 Selected(k, call.asset_types) /\ call.before[k] /= <<>>}
        /\ \A k \in DOMAIN call.ret : call.ret[k] = call.before[k]
        /\ call.asset_types = <<>> => call.ret = EmptyMap

\* a filter that keeps a key for a substring in another case inside its
\* name, with a list that names a key it rejects, and that leaves out a key
\* whose name matches but whose list is empty
C23_Witness ==
    /\ IsFilterCall
    /\ \E k \in DOMAIN call.ret, r \in DOMAIN call.before \ DOMAIN call.ret :
          /\ ~asset_matches_prefix(k, call.asset_types)
          /\ Contains(call.ret[k], r)
          /\ ~Selected(r, call.asset_types)
    /\ \E k \in DOMAIN call.before \ DOMAIN call.ret :
          Selected(k, call.asset_types) /\ call.before[k] = <<>>

(***************************************************************************)
(* C24  the operations that read leave the store as it is                  *)
(***************************************************************************)
ReadOps ==
    {"get_dependencies", "get_reverse_dependencies", "get_all_dependencies",
     "build_dependency_tree", "detect_circular_dependencies", "find_orphaned_assets",
     "get_most_referenced_assets", "generate_statistics", "analyze_asset_dependencies",
     "validate", "export_to_format"}

\* a step in which a read operation returns
ReadReturns == call' /= call /\ call'.op \in ReadOps

C24_ReadFrame == ReadReturns => dependencies' = dependencies

\* get_dependencies returns the list of the asset, entry for entry, and the
\* empty sequence for an asset that is not a key
C24_GetDependenciesCopies ==
    (call /= NoCall /\ call.op = "get_dependencies") =>
        /\ call.asset \in DOMAIN dependencies => call.ret = dependencies[call.asset]
        /\ call.asset \notin DOMAIN dependencies => call.ret = <<>>

\* C24: every read operation (get_dependencies, get_reverse_dependencies,
\* get_all_dependencies, build_dependency_tree, detect_circular_dependencies,
\* find_orphaned_assets, get_most_referenced_assets, generate_statistics,
\* analyze_asset_dependencies, validate, export_to_format) leaves the keys
\* and lists of the store as they were, whatever it returns; get_dependencies
\* returns a copy of the list, or the empty sequence for an absent asset.
C24_ReadsLeaveStore ==
    [](C24_GetDependenciesCopies) /\ [][C24_ReadFrame]_vars

\* a lookup of an asset that is not a key, right after an edge was added
C24_Witness ==
    /\ call.op = "get_dependencies"
    /\ call.prev.op = "add_dependency"
    /\ call.asset \notin DOMAIN dependencies
    /\ call.ret = <<>>
    /\ dependencies /= EmptyMap

\* an analysis of an asset of a store that holds a cycle
C24_WitnessAnalysis ==
    /\ call.op = "analyze_asset_dependencies"
    /\ call.ret.direct_dependencies /= <<>>
    /\ call.ret.reverse_dependencies /= <<>>
    /\ call.ret.statistics.circular_references /= <<>>

(***************************************************************************)
(* C25  add_dependency appends                                             *)
(***************************************************************************)
IsAddCall == call /= NoCall /\ call.op = "add_dependency"

\* C25: add_dependency(A, B) makes the list of A the old list of A (the
\* empty list when A was not a key) followed by B, also when B was in it
\* already, so the list grows by exactly one entry; A is a key afterwards
\* and every other key and its list are as before.
C25_AddAppends ==
    IsAddCall =>
        LET A == call.asset
            old == IF A \in DOMAIN call.before THEN call.before[A] ELSE <<>>
        IN /\ DOMAIN dependencies = (DOMAIN call.before) \cup {A}
           /\ Len(dependencies[A]) = Len(old) + 1
           /\ \A i \in 1..Len(old) : dependencies[A][i] = old[i]
           /\ dependencies[A][Len(old) + 1] = call.dependency
           /\ \A k \in (DOMAIN call.before) \ {A} : dependencies[k] = call.before[k]

\* B is added to a list that holds it already, next to another key
C25_Witness ==
    /\ IsAddCall
    /\ call.asset \in DOMAIN call.before
    /\ Contains(call.before[call.asset], call.dependency)
    /\ call.before[call.asset][Len(call.before[call.asset])] /= call.dependency
    /\ (DOMAIN call.before) \ {call.asset} /= {}

(***************************************************************************)
(* C26  the depth recurrence                                               *)
(***************************************************************************)
IsDepthCall == call /= NoCall /\ call.op = "calculate_max_depth"

\* the depth below `path`, the assets of the calls that are open: 0 for an
\* asset on the path, else 1 plus the greatest depth of a dependency below
\* the path with the asset added
RECURSIVE DepthBelow(_, _, _)
DepthBelow(store, a, path) ==
    IF a \in path THEN 0
    ELSE 1 + MaxOf({0} \cup {DepthBelow(store, d, path \cup {a}) : d \in Succ(store, a)})

\* C26: calculate_max_depth follows the recurrence: an asset without
\* dependencies has depth 1, any other asset 1 plus the greatest depth of
\* its dependencies, a dependency on the current path counting 0; so
\* {A: [A]} gives 1 for A and {A: [B], B: [A]} gives 2 for A.
C26_DepthRecurrence ==
    IsDepthCall =>
        LET a == call.asset
        IN /\ ~call.ret.diverged
           /\ call.ret.depth = DepthBelow(dependencies, a, {})
           /\ call.ret.visited = {}
           /\ Succ(dependencies, a) = {} => call.ret.depth = 1
           /\ Succ(dependencies, a) = {a} => call.ret.depth = 1
           /\ (a = "A" /\ dependencies = [k \in {"A"} |-> <<"A">>]) => call.ret.depth = 1
           /\ (a = "A" /\ dependencies = [k \in {"A", "B"} |->
                                             IF k = "A" THEN <<"B">> ELSE <<"A">>])
                 => call.ret.depth = 2

\* the depth of an asset whose first dependency is also reached through
\* its second one: the path-local set lets the second one count it again
C26_Witness ==
    /\ IsDepthCall
    /\ call.asset \in DOMAIN dependencies
    /\ Len(dependencies[call.asset]) = 2
    /\ dependencies[call.asset][2] \in DOMAIN dependencies
    /\ dependencies[dependencies[call.asset][2]] = <<dependencies[call.asset][1]>>
    /\ Cardinality({call.asset, dependencies[call.asset][1], dependencies[call.asset][2]}) = 3
    /\ call.ret.depth = 3

\* the depth of A in the two-cycle {A: [B], B: [A]}
C26_WitnessTwoCycle ==
    /\ IsDepthCall
    /\ call.asset = "A"
    /\ dependencies = [k \in {"A", "B"} |-> IF k = "A" THEN <<"B">> ELSE <<"A">>]
    /\ call.ret.depth = 2

(***************************************************************************)
(* C27  the depth is the length of a longest simple path                   *)
(***************************************************************************)
\* the sequences of pairwise distinct assets that start at a and follow
\* the edges of the store
SimplePaths(store, a) ==
    {p \in UNION {[1..n -> Assets] : n \in 1..Cardinality(Assets)} :
        /\ p[1] = a
        /\ NoDuplicates(p)
        /\ \A i \in 1..(Len(p) - 1) : p[i + 1] \in Succ(store, p[i])}

\* the assets the store mentions
Mentioned(store) == (DOMAIN store) \cup UNION {Succ(store, k) : k \in DOMAIN store}

\* C27: calculate_max_depth(a) is the number of assets on a longest simple
\* path that starts at a; it is at least 1 and at most the number of
\* distinct assets the store mentions plus 1; in a store without cycles it
\* is the number of assets on the longest chain of dependencies from a.
C27_DepthIsLongestSimplePath ==
    IsDepthCall =>
        LET a == call.asset
        IN /\ call.ret.depth = MaxOf({Len(p) : p \in SimplePaths(dependencies, a)})
           /\ call.ret.depth >= 1
           /\ call.ret.depth <= Cardinality(Mentioned(dependencies)) + 1
           /\ ~HasCycle(dependencies) =>
                 call.ret.depth = LongestWalk(Walks(dependencies, a)) + 1

\* the depth of an asset on a three-cycle: three assets, the walk goes on
C27_Witness ==
    /\ IsDepthCall
    /\ OnCycle(dependencies, call.asset)
    /\ call.ret.depth = 3
    /\ TotalEdges(dependencies) = 3

(***************************************************************************)
(* C28  optimize keeps the graph                                           *)
(***************************************************************************)
IsOptimizeCall == call /= NoCall /\ call.op = "optimize"

\* the answers to "is the result of detect_circular_dependencies empty?",
\* over the orders in which the map may yield its keys
CycleFree(store) ==
    {detect_circular_dependencies(store, order).value = <<>> : order \in Perms(DOMAIN store)}

\* what optimize leaves as it was, find_orphaned_assets aside: the set of
\* edges, the element sets of the three lookups for every asset, and
\* whether detect_circular_dependencies reports anything
OptimizeKeepsEdges ==
    LET before == call.before
    IN /\ EdgeSet(dependencies) = EdgeSet(before)
       /\ \A a \in Assets :
             /\ Elems(get_dependencies(dependencies, a)) = Elems(get_dependencies(before, a))
             /\ \A o1 \in Perms(DOMAIN dependencies), o2 \in Perms(DOMAIN before) :
                   Elems(get_reverse_dependencies(dependencies, a, o1))
                       = Elems(get_reverse_dependencies(before, a, o2))
             /\ Elems(get_all_dependencies(dependencies, a).value)
                   = Elems(get_all_dependencies(before, a).value)
       /\ CycleFree(dependencies) = CycleFree(before)
       /\ Cardinality(CycleFree(before)) = 1

Dropped(x) ==
    /\ x \in DOMAIN call.before
    /\ call.before[x] = <<>>
    /\ \A k \in DOMAIN call.before : ~Contains(call.before[k], x)

C28_WitnessNoEmptyList ==
    /\ IsOptimizeCall
    /\ call.ret > 0
    /\ \A k \in DOMAIN call.before : call.before[k] /= <<>>
    /\ HasCycle(call.before)
    /\ \E k \in DOMAIN call.before : ~StrictlyAscending(DedupVec(call.before[k]))

(***************************************************************************)
(* C29  the recursion stack is the path                                    *)
(***************************************************************************)
\* the list entry the innermost open call looks at next, if it has one
NextEntry ==
    LET n == Len(dfs.path)
        deps == get_dependencies(dependencies, dfs.path[n])
    IN IF n > 0 /\ dfs.idx[n] <= Len(deps) THEN {deps[dfs.idx[n]]} ELSE {}

\* C29: while detect_circular_dependencies runs, recursion_stack holds
\* exactly the assets of path and path holds no asset twice; so the target
\* of a back-edge is found in path and the unwrap() does not panic; and
\* every cycle reported, during the call and in its result, consists of
\* pairwise distinct assets that are all keys of the store.
C29_StackIsPath ==
    /\ pc = "dfs" =>
          /\ dfs.recursion_stack = Elems(dfs.path)
          /\ NoDuplicates(dfs.path)
          /\ dfs.recursion_stack \subseteq dfs.visited
          /\ ~dfs.panicked
          /\ \A dep \in NextEntry :
                dep \in dfs.recursion_stack => Position(dfs.path, dep) \in 1..Len(dfs.path)
    /\ call.op = "detect_circular_dependencies" => ~call.ret.panicked
    /\ \A i \in 1..Len(ReportedCycles) :
          /\ NoDuplicates(ReportedCycles[i])
          /\ Elems(ReportedCycles[i]) \subseteq DOMAIN dependencies

\* the search is two calls deep, has left an asset behind it, and is about
\* to look at an entry that leads back onto its path, one cycle reported
C29_Witness ==
    /\ pc = "dfs"
    /\ Len(dfs.path) >= 2
    /\ dfs.visited \ dfs.recursion_stack /= {}
    /\ dfs.circular_refs /= <<>>
    /\ \E dep \in NextEntry : dep \in dfs.recursion_stack /\ dep /= dfs.path[Len(dfs.path)]

(***************************************************************************)
(* C30  the store of AppState behind its Mutex                             *)
(***************************************************************************)
\* the task is in the part of its handler that reads `field` of AppState:
\* from the last lock().await to the return, the await of the preview
\* included
Reads(t, field) ==
    /\ field \in handler_reads(tasks[t].kind)
    /\ \/ tasks[t].pc = "start" /\ GuardsHeld(t)
       \/ tasks[t].pc \in {"await", "return"}

\* the task waits in lock().await for a Mutex another task holds
Waits(t) ==
    /\ tasks[t].pc = "start"
    /\ ~GuardsHeld(t)
    /\ mutex[handler_locks(tasks[t].kind)[Len(tasks[t].held) + 1]] /= NoOwner

\* the handler has a step to take
CanStep(t) == ENABLED (Lock(t) \/ Body(t) \/ Resume(t) \/ Return(t) \/ Close(t))

\* C30: the DependencyMap of AppState (and likewise its asset list) is read
\* only by the task that holds its Mutex, so at most one handler is at the
\* store at a time; a handler holds at most one of the two locks, none
\* while it waits for one, and none once it has returned; and whenever a
\* request is in flight some handler can take a step, the holder of the
\* lock that a waiting handler wants among them: no deadlock.
C30_StoreBehindMutex ==
    /\ \A t \in TaskIds, l \in Locks : Reads(t, l) => mutex[l] = t
    /\ Cardinality({t \in TaskIds : Reads(t, "dependencies")}) <= 1
    /\ \A t \in TaskIds :
          /\ Len(tasks[t].held) <= 1
          /\ Waits(t) => tasks[t].held = <<>>
          /\ tasks[t].pc \in {"none", "done"} => tasks[t].held = <<>>
          /\ \A l \in Locks : mutex[l] = t <=> Contains(tasks[t].held, l)
    /\ \A l \in Locks : mutex[l] \in TaskIds \cup {NoOwner}
    /\ (\E t \in TaskIds : tasks[t] /= NoTask) => \E t \in TaskIds : CanStep(t)
    /\ \A t \in TaskIds :
          Waits(t) =>
              LET owner == mutex[handler_locks(tasks[t].kind)[Len(tasks[t].held) + 1]]
              IN owner /= t /\ ~Waits(owner) /\ CanStep(owner)
    /\ \A t \in TaskIds :
          (tasks[t].kind = "get_dependencies_http" /\ tasks[t].pc \in {"return", "done"}) =>
              tasks[t].response = <<"Ok", [dependencies |-> create_mock_dependencies]>>

\* one handler is at the store with the Mutex, a second one waits for it,
\* and a third holds the other lock across its await
C30_Witness ==
    \E t, u, v \in TaskIds :
        /\ Reads(t, "dependencies") /\ mutex["dependencies"] = t
        /\ u /= t /\ tasks[u].kind = "get_dependencies_http" /\ Waits(u)
        /\ tasks[v].kind = "get_preview_http" /\ tasks[v].pc = "await"
        /\ mutex["assets"] = v

====
